---- MODULE Spec2Model ----
(***************************************************************************)
(* A model of the prompt-construction pipeline of holytext: the command    *)
(* processor (utils.py), the Orthodox terminology dictionary               *)
(* (orthodox_dictionary.py) and the Bible reference resolver and footnote  *)
(* processor (bible_service.py).  Python strings are TLA+ strings; a       *)
(* character is a string of length one.  Optional[...] values are          *)
(* sequences: None is << >> and a present value v is << v >>.              *)
(***************************************************************************)
EXTENDS Integers, Sequences, FiniteSets, TLC

VARIABLES
    terms_dict,         \* OrthodoxDictionary.terms_dict, in insertion order
    session_min_score,  \* st.session_state.orthodox_min_score, None when unset
    min_score,          \* OrthodoxDictionary.min_score
    matcher_min_score,  \* OrthodoxDictionary.fuzzy_matcher.min_score
    session_messages,   \* st.session_state.messages, the stored conversation
    call,               \* the last call made: its name and arguments
    ret                 \* what that call returned, a record of the named results

vars == <<terms_dict, session_min_score, min_score, matcher_min_score, session_messages,
         call, ret>>

-----------------------------------------------------------------------------
(* Bounds of the model. *)

\* leading / trailing whitespace characters put around an input
MaxPad == 1
\* chapter and verse numbers of the citations that are enumerated
MaxNum == 13
\* parenthesized citations in one text
MaxRefs == 2
\* verses in one passage-service response
MaxVerses == 2
\* entries of a dictionary
MaxTerms == 3
\* pieces of one text given to find_matching_terms
MaxSentences == 2
\* lines of one dictionary file
MaxLines == 3
\* a weight given to AdvancedFuzzyMatcher, in tenths
MaxWeight == 3
\* answered turns the stored conversation can hold
MaxTurns == 2

-----------------------------------------------------------------------------
(* Python str primitives. *)

None == << >>

Some(v) == << v >>

Char(s, i) == SubSeq(s, i, i)

Min(S) == CHOOSE m \in S : \A n \in S : m <= n

Max(S) == CHOOSE m \in S : \A n \in S : m >= n

Chars(s) == { Char(s, i) : i \in 1..Len(s) }

LowerLetters == "abcdefghijklmnopqrstuvwxyz"

UpperLetters == "ABCDEFGHIJKLMNOPQRSTUVWXYZ"

Digits == "0123456789"

\* str.isspace / regex \s on ASCII: space, tab, line feed, carriage return, form
\* feed, vertical tab (11) and the separators 28 to 31, the last five written
\* as the characters themselves
SpaceCh == {" ", "\t", "\n", "\r", "\f", "", "", "", "", ""}

\* regex \d
DigitCh == Chars(Digits)

\* regex \w
WordCh == Chars(LowerLetters) \cup Chars(UpperLetters) \cup DigitCh \cup {"_"}

\* the lower-case letter of each upper-case letter
LowerOf == [c \in Chars(UpperLetters) |->
               Char(LowerLetters, CHOOSE i \in 1..26 : Char(UpperLetters, i) = c)]

LowerCh(c) == IF c \in DOMAIN LowerOf THEN LowerOf[c] ELSE c

RECURSIVE LowerRange(_, _, _)
\* s[i..j] lower-cased, by halves
LowerRange(s, i, j) ==
    IF i > j THEN ""
    ELSE IF i = j THEN LowerCh(Char(s, i))
    ELSE LowerRange(s, i, (i + j) \div 2) \o LowerRange(s, (i + j) \div 2 + 1, j)

\* str.lower()
Lower(s) == LowerRange(s, 1, Len(s))

\* s[a:b] with 0-based a, b (b may exceed len(s))
Slice(s, a, b) ==
    LET hi == IF b > Len(s) THEN Len(s) ELSE b
    IN  IF a >= hi THEN "" ELSE SubSeq(s, a + 1, hi)

\* s[a:]
SliceFrom(s, a) == Slice(s, a, Len(s))

\* first 1-based position >= i whose character is not in cls, Len(s)+1 if none
SpanEnd(s, i, cls) ==
    LET stops == { j \in i..Len(s) : Char(s, j) \notin cls }
    IN  IF stops = {} THEN Len(s) + 1 ELSE Min(stops)

\* str.strip()
Strip(s) ==
    LET keep == { j \in 1..Len(s) : Char(s, j) \notin SpaceCh }
    IN  IF keep = {} THEN "" ELSE SubSeq(s, Min(keep), Max(keep))

\* str.startswith(p)
StartsWith(s, p) == Len(p) <= Len(s) /\ SubSeq(s, 1, Len(p)) = p

\* str.endswith(p)
EndsWith(s, p) == Len(p) <= Len(s) /\ SubSeq(s, Len(s) - Len(p) + 1, Len(s)) = p

\* str.find(sub, start): 0-based index of the first occurrence at or after start, -1 if none
Find(s, sub, start) ==
    LET hits == { j \in start..(Len(s) - Len(sub)) : SubSeq(s, j + 1, j + Len(sub)) = sub }
    IN  IF hits = {} THEN -1 ELSE Min(hits)

\* sub in s
Contains(s, sub) == Find(s, sub, 0) >= 0

RECURSIVE ReplaceAll(_, _, _)
\* str.replace(old, new) without a count: every occurrence, left to right
ReplaceAll(s, old, new) ==
    LET p == Find(s, old, 0)
    IN  IF p < 0 \/ old = "" THEN s
        ELSE Slice(s, 0, p) \o new \o ReplaceAll(SliceFrom(s, p + Len(old)), old, new)

\* str.replace(old, new, 1)
ReplaceFirst(s, old, new) ==
    LET p == Find(s, old, 0)
    IN  IF p < 0 THEN s ELSE Slice(s, 0, p) \o new \o SliceFrom(s, p + Len(old))

\* first 1-based position >= i whose character is in cls, Len(s)+1 if none
SpanEndNot(s, i, cls) ==
    LET stops == { j \in i..Len(s) : Char(s, j) \in cls }
    IN  IF stops = {} THEN Len(s) + 1 ELSE Min(stops)

RECURSIVE RunsInFrom(_, _, _)
RunsInFrom(s, i, cls) ==
    IF i > Len(s) THEN << >>
    ELSE IF Char(s, i) \notin cls THEN RunsInFrom(s, i + 1, cls)
    ELSE LET e == SpanEnd(s, i, cls)
         IN  <<SubSeq(s, i, e - 1)>> \o RunsInFrom(s, e, cls)

\* the maximal runs of characters of cls, in order
RunsIn(s, cls) == RunsInFrom(s, 1, cls)

RECURSIVE RunsOutsideFrom(_, _, _)
RunsOutsideFrom(s, i, cls) ==
    IF i > Len(s) THEN << >>
    ELSE IF Char(s, i) \in cls THEN RunsOutsideFrom(s, i + 1, cls)
    ELSE LET e == SpanEndNot(s, i, cls)
         IN  <<SubSeq(s, i, e - 1)>> \o RunsOutsideFrom(s, e, cls)

\* the maximal runs of characters not in cls, in order
RunsOutside(s, cls) == RunsOutsideFrom(s, 1, cls)

Range(q) == { q[i] : i \in 1..Len(q) }

\* the printable ASCII characters in code point order: " " (32) to "[" (91) ...
AsciiLow == " !" \o "\"" \o "#$%&'()*+,-./" \o Digits \o ":;<=>?@" \o UpperLetters \o "["

\* ... "]" (93) to "_" (95), and "a" (97) to "~" (126); the backslash (92) and
\* the backquote (96) are left out of the inputs
AsciiMid == "]^_"

AsciiHigh == LowerLetters \o "{|}~"

\* the code points of the characters of the three pieces
OrdOf ==
    LET At(piece, c) == CHOOSE i \in 1..Len(piece) : Char(piece, i) = c
    IN  [c \in Chars(AsciiLow) \cup Chars(AsciiMid) \cup Chars(AsciiHigh) |->
            IF c \in Chars(AsciiLow) THEN 31 + At(AsciiLow, c)
            ELSE IF c \in Chars(AsciiMid) THEN 92 + At(AsciiMid, c)
            ELSE 96 + At(AsciiHigh, c)]

\* ord(c)
Ord(c) ==
    IF c = "\t" THEN 9 ELSE IF c = "\n" THEN 10 ELSE IF c = "\f" THEN 12
    ELSE IF c = "\r" THEN 13
    ELSE OrdOf[c]

RECURSIVE StrLess(_, _)
\* a < b on str
StrLess(a, b) ==
    IF b = "" THEN FALSE
    ELSE IF a = "" THEN TRUE
    ELSE IF Char(a, 1) = Char(b, 1) THEN StrLess(SliceFrom(a, 1), SliceFrom(b, 1))
    ELSE Ord(Char(a, 1)) < Ord(Char(b, 1))

RECURSIVE Sorted(_)
\* sorted(S) for a set of str
Sorted(S) ==
    IF S = {} THEN << >>
    ELSE LET least == CHOOSE x \in S : \A y \in S \ {x} : StrLess(x, y)
         IN  <<least>> \o Sorted(S \ {least})

RECURSIVE Join(_, _)
\* sep.join(parts)
Join(parts, sep) ==
    IF parts = << >> THEN ""
    ELSE IF Len(parts) = 1 THEN parts[1]
    ELSE parts[1] \o sep \o Join(Tail(parts), sep)

RECURSIVE CountFrom(_, _, _)
\* str.count(sub)
CountFrom(s, sub, start) ==
    LET p == Find(s, sub, start)
    IN  IF p < 0 THEN 0 ELSE 1 + CountFrom(s, sub, p + Len(sub))

Count(s, sub) == CountFrom(s, sub, 0)

RECURSIVE Dec(_)
\* str(n) for n >= 0, as f"{n}" formats it
Dec(n) == IF n < 10 THEN Char(Digits, n + 1) ELSE Dec(n \div 10) \o Char(Digits, (n % 10) + 1)

RECURSIVE Repeat(_, _)
\* s * n
Repeat(s, n) == IF n <= 0 THEN "" ELSE s \o Repeat(s, n - 1)

-----------------------------------------------------------------------------
(* bible_service.py: parse_bible_reference *)

book_abbreviations == <<
    <<"1 corinthians", "1cor">>, <<"1 cor", "1cor">>, <<"i cor", "1cor">>, <<"i corinthians", "1cor">>,
    <<"2 corinthians", "2cor">>, <<"2 cor", "2cor">>, <<"ii cor", "2cor">>, <<"ii corinthians", "2cor">>,
    <<"1 thessalonians", "1thess">>, <<"1 thess", "1thess">>, <<"i thess", "1thess">>, <<"i thessalonians", "1thess">>,
    <<"2 thessalonians", "2thess">>, <<"2 thess", "2thess">>, <<"ii thess", "2thess">>, <<"ii thessalonians", "2thess">>,
    <<"1 timothy", "1tim">>, <<"1 tim", "1tim">>, <<"i tim", "1tim">>, <<"i timothy", "1tim">>,
    <<"2 timothy", "2tim">>, <<"2 tim", "2tim">>, <<"ii tim", "2tim">>, <<"ii timothy", "2tim">>,
    <<"1 peter", "1pet">>, <<"1 pet", "1pet">>, <<"i pet", "1pet">>, <<"i peter", "1pet">>,
    <<"2 peter", "2pet">>, <<"2 pet", "2pet">>, <<"ii pet", "2pet">>, <<"ii peter", "2pet">>,
    <<"1 john", "1john">>, <<"1 jn", "1john">>, <<"i jn", "1john">>, <<"i john", "1john">>,
    <<"2 john", "2john">>, <<"2 jn", "2john">>, <<"ii jn", "2john">>, <<"ii john", "2john">>,
    <<"3 john", "3john">>, <<"3 jn", "3john">>, <<"iii jn", "3john">>, <<"iii john", "3john">>,
    <<"1 kings", "1kings">>, <<"1 kgs", "1kings">>, <<"i kgs", "1kings">>, <<"i kings", "1kings">>,
    <<"2 kings", "2kings">>, <<"2 kgs", "2kings">>, <<"ii kgs", "2kings">>, <<"ii kings", "2kings">>,
    <<"1 samuel", "1sam">>, <<"1 sam", "1sam">>, <<"i sam", "1sam">>, <<"i samuel", "1sam">>,
    <<"2 samuel", "2sam">>, <<"2 sam", "2sam">>, <<"ii sam", "2sam">>, <<"ii samuel", "2sam">>,
    <<"1 chronicles", "1chron">>, <<"1 chron", "1chron">>, <<"i chron", "1chron">>, <<"i chronicles", "1chron">>,
    <<"2 chronicles", "2chron">>, <<"2 chron", "2chron">>, <<"ii chron", "2chron">>, <<"ii chronicles", "2chron">>,
    <<"matthew", "matthew">>, <<"mark", "mark">>, <<"luke", "luke">>, <<"john", "john">>,
    <<"acts", "acts">>, <<"romans", "rom">>, <<"galatians", "gal">>, <<"ephesians", "eph">>,
    <<"philippians", "phil">>, <<"colossians", "col">>, <<"titus", "titus">>, <<"philemon", "philem">>,
    <<"hebrews", "heb">>, <<"james", "james">>, <<"jude", "jude">>, <<"revelation", "rev">>,
    <<"genesis", "gen">>, <<"exodus", "exod">>, <<"leviticus", "lev">>, <<"numbers", "num">>,
    <<"deuteronomy", "deut">>, <<"joshua", "josh">>, <<"judges", "judg">>, <<"ruth", "ruth">>,
    <<"ezra", "ezra">>, <<"nehemiah", "neh">>, <<"esther", "esth">>, <<"job", "job">>,
    <<"psalms", "ps">>, <<"psalm", "ps">>, <<"proverbs", "prov">>, <<"ecclesiastes", "eccl">>,
    <<"song of solomon", "song">>, <<"isaiah", "isa">>, <<"jeremiah", "jer">>, <<"lamentations", "lam">>,
    <<"ezekiel", "ezek">>, <<"daniel", "dan">>, <<"hosea", "hos">>, <<"joel", "joel">>,
    <<"amos", "amos">>, <<"obadiah", "obad">>, <<"jonah", "jonah">>, <<"micah", "mic">>,
    <<"nahum", "nah">>, <<"habakkuk", "hab">>, <<"zephaniah", "zeph">>, <<"haggai", "hag">>,
    <<"zechariah", "zech">>, <<"malachi", "mal">>
>>

\* dict.get(key, default)
AbbreviationGet(key, default) ==
    LET hits == { i \in 1..Len(book_abbreviations) : book_abbreviations[i][1] = key }
    IN  IF hits = {} THEN default ELSE book_abbreviations[Min(hits)][2]

RECURSIVE RemoveSpacesRange(_, _, _)
\* s[i..j] without its spaces, by halves
RemoveSpacesRange(s, i, j) ==
    IF i > j THEN ""
    ELSE IF i = j THEN (IF Char(s, i) = " " THEN "" ELSE Char(s, i))
    ELSE RemoveSpacesRange(s, i, (i + j) \div 2) \o RemoveSpacesRange(s, (i + j) \div 2 + 1, j)

\* str.replace(' ', '')
RemoveSpaces(s) == RemoveSpacesRange(s, 1, Len(s))

(* The outcome of one attempt of re.match with group 1 = s[1..k], given the *)
(* positions e1..e8 after the later pieces of the pattern.  After a fixed   *)
(* group 1 every later quantifier of the pattern can only succeed on its    *)
(* maximal run, so the attempt is deterministic.  None, or the groups.      *)
MatchGroups(s, k, e1, e2, e3, e4, e5, e6, e7, e8) ==
    LET ok == /\ \A j \in 1..k : Char(s, j) \in WordCh \cup SpaceCh
              /\ e1 > k + 1
              /\ e2 > e1
              /\ e3 <= Len(s) /\ Char(s, e3) = ":"
              /\ e5 > e4
        ranged == e6 <= Len(s) /\ Char(s, e6) = "-" /\ e8 > e7
    IN  IF ~ok THEN None
        ELSE Some([book  |-> SubSeq(s, 1, k),
                   chapter |-> SubSeq(s, e1, e2 - 1),
                   start |-> SubSeq(s, e4, e5 - 1),
                   end   |-> IF ranged THEN Some(SubSeq(s, e7, e8 - 1)) ELSE None,
                   stop  |-> IF ranged THEN e8 ELSE e5])   \* first position not consumed

(* One attempt of re.match with group 1 = s[1..k]: e1..e8 are the positions *)
(* after the successive pieces of the pattern that follow group 1.          *)
MatchWithBook(s, k) ==
    LET e1 == SpanEnd(s, k + 1, SpaceCh)          \* \s+
        e2 == SpanEnd(s, e1, DigitCh)             \* (\d+)
        e3 == SpanEnd(s, e2, SpaceCh)             \* \s*
        e4 == SpanEnd(s, e3 + 1, SpaceCh)         \* :\s*
        e5 == SpanEnd(s, e4, DigitCh)             \* (\d+)
        e6 == SpanEnd(s, e5, SpaceCh)             \* (?:\s*
        e7 == SpanEnd(s, e6 + 1, SpaceCh)         \*    -\s*
        e8 == SpanEnd(s, e7, DigitCh)             \*    (\d+))?
    IN  MatchGroups(s, k, e1, e2, e3, e4, e5, e6, e7, e8)

(* re.match(pattern, reference): group 1 is non-greedy, so the match is the *)
(* attempt with the shortest group 1 that succeeds.                         *)
MatchReference(s) ==
    LET Shortest(ks) == IF ks = {} THEN None ELSE MatchWithBook(s, Min(ks))
    IN  Shortest({ k \in 1..Len(s) : MatchWithBook(s, k) # None })

\* a parse_bible_reference that looks the book up without lower-casing it
parse_bible_reference_case_sensitive(reference) ==
    LET Ref(stripped) == IF StartsWith(stripped, "(") /\ EndsWith(stripped, ")")
                         THEN Strip(Slice(stripped, 1, Len(stripped) - 1))
                         ELSE stripped
        ApiBookName(book_name) == AbbreviationGet(book_name, RemoveSpaces(book_name))
        Parsed(match) ==
            IF match = None THEN None
            ELSE LET g == match[1]
                     api_book_name == ApiBookName(Strip(g.book))
                     where_expr == "chapter=" \o g.chapter \o " AND verse>=" \o g.start
                                   \o (IF g.end # None
                                       THEN " AND verse<=" \o g.end[1]
                                       ELSE " AND verse<=" \o g.start)
                 IN  <<api_book_name, where_expr>>
    IN  Parsed(MatchReference(Ref(Strip(reference))))

parse_bible_reference(reference) ==
    LET Ref(stripped) == IF StartsWith(stripped, "(") /\ EndsWith(stripped, ")")
                         THEN Strip(Slice(stripped, 1, Len(stripped) - 1))
                         ELSE stripped
        ApiBookName(book_name) == AbbreviationGet(book_name, Lower(RemoveSpaces(book_name)))
        Parsed(match) ==
            IF match = None THEN None
            ELSE LET g == match[1]
                     api_book_name == ApiBookName(Lower(Strip(g.book)))
                     where_expr == "chapter=" \o g.chapter \o " AND verse>=" \o g.start
                                   \o (IF g.end # None
                                       THEN " AND verse<=" \o g.end[1]
                                       ELSE " AND verse<=" \o g.start)
                 IN  <<api_book_name, where_expr>>
    IN  Parsed(MatchReference(Ref(Strip(reference))))

-----------------------------------------------------------------------------
(* bible_service.py: fetch_bible_text.  The passage service is outside the  *)
(* program: what one POST produces is a `response' record chosen by the     *)
(* environment.  transport = FALSE is requests.post raising; body.json is    *)
(* what response.json() yields: "invalid" (it raises), "null", "object" (a   *)
(* non-empty JSON object) or "array" with the listed items.                  *)

HTTP_OK == 200

BIBLE_API_URL == "https://ponomarserver-production.up.railway.app/pericope"

\* An exception leaving a function, as that function's outcome
Raise(what) == <<"exception", what>>

IsRaise(r) == Len(r) = 2 /\ r[1] = "exception"

\* for verse in verses: formatted_text += f"{verse['text']} "; the first item
\* that cannot be read raises: KeyError for an object without 'text', TypeError
\* for an item that is not an object
RECURSIVE FormatVerses(_, _)
FormatVerses(items, i) ==
    IF i > Len(items) THEN Some("")
    ELSE IF items[i].kind = "no_text" THEN Raise("KeyError")
    ELSE IF items[i].kind # "verse" THEN Raise("TypeError")
    ELSE LET Rest(rest) == IF IsRaise(rest) THEN rest
                           ELSE Some(items[i].text \o " " \o rest[1])
         IN  Rest(FormatVerses(items, i + 1))

\* the try block of fetch_bible_text (lines 105-129)
fetch_bible_text_try(book_name, where_expr, lang, response) ==
    IF ~response.transport THEN Raise("requests.RequestException")
    ELSE IF response.status = HTTP_OK
    THEN IF response.body.json = "invalid" THEN Raise("JSONDecodeError")
         ELSE IF response.body.json = "null" THEN None        \* not verses
         ELSE IF response.body.json = "object" THEN Raise("TypeError")  \* key['text']
         ELSE IF response.body.items = << >> THEN None        \* not verses
         ELSE LET Formatted(formatted_text) ==
                      IF IsRaise(formatted_text) THEN formatted_text
                      ELSE Some(Strip(formatted_text[1]))
              IN  Formatted(FormatVerses(response.body.items, 1))
    ELSE None

\* a fetch_bible_text without its except clause
fetch_bible_text_unguarded(book_name, where_expr, lang, response) ==
    fetch_bible_text_try(book_name, where_expr, lang, response)

fetch_bible_text(book_name, where_expr, lang, response) ==
    LET outcome == fetch_bible_text_try(book_name, where_expr, lang, response)
    IN  IF IsRaise(outcome) THEN None ELSE outcome    \* except Exception: return None

\* Python truthiness of an Optional[str]: None and "" are false
Truthy(opt) == opt # None /\ opt[1] # ""

-----------------------------------------------------------------------------
(* bible_service.py: extract_bible_references and process_footnotes *)

(* The pattern of extract_bible_references at the "(" at position i.  What  *)
(* it allows between the parentheses excludes ")", so a match ends at the   *)
(* first ")" after i and the text between is matched whole by the pattern   *)
(* of parse_bible_reference.  None, or the text between the parentheses.    *)
ReferenceMatchAt(text, i) ==
    IF Char(text, i) # "(" THEN None
    ELSE LET close == Find(text, ")", i)
             inner == Slice(text, i, close)
         IN  IF close < 0 THEN None
             ELSE IF \E k \in 1..Len(inner) :
                        /\ MatchWithBook(inner, k) # None
                        /\ MatchWithBook(inner, k)[1].stop = Len(inner) + 1
                  THEN Some(inner)
                  ELSE None

RECURSIVE ExtractFrom(_, _)
\* re.finditer from position i on: leftmost matches that do not overlap
ExtractFrom(text, i) ==
    IF i > Len(text) THEN << >>
    ELSE LET Matched(m) ==
                 IF m = None THEN ExtractFrom(text, i + 1)
                 ELSE << <<m[1], "(" \o m[1] \o ")">> >>
                      \o ExtractFrom(text, i + Len(m[1]) + 2)
         IN  Matched(ReferenceMatchAt(text, i))

\* the elements of the finite set of integers S in increasing order
Ascending(S) ==
    [n \in 1..Cardinality(S) |-> CHOOSE i \in S : Cardinality({ k \in S : k <= i }) = n]

\* an extract_bible_references that lists a citation once however often it occurs
extract_bible_references_distinct(text) ==
    LET Distinct(all) ==
            LET firsts == { i \in 1..Len(all) : \A j \in 1..(i - 1) : all[j] # all[i] }
                order == Ascending(firsts)
            IN  [n \in 1..Len(order) |-> all[order[n]]]
    IN  Distinct(ExtractFrom(text, 1))

\* the list of (reference, full_match)
extract_bible_references(text) == ExtractFrom(text, 1)

(* The loop of process_footnotes from its i-th reference (1-based) on.      *)
(* `responses' is what the passage service answers to the successive POSTs  *)
(* and `calls' counts the POSTs made so far.                                *)
RECURSIVE FootnotesLoop(_, _, _, _, _, _)
FootnotesLoop(references, i, calls, responses, processed_text, footnotes) ==
    IF i > Len(references) THEN <<processed_text, footnotes>>
    ELSE LET reference == references[i][1]
             full_match == references[i][2]
             footnote_marker == "[" \o Dec(i) \o "]"      \* f"[{i+1}]", i 0-based there
             Fetched(bible_text) ==
                 IF Truthy(bible_text)
                 THEN FootnotesLoop(references, i + 1, calls + 1, responses,
                          ReplaceFirst(processed_text, full_match,
                                       full_match \o footnote_marker),
                          Append(footnotes, [reference |-> reference,
                                             text |-> bible_text[1]]))
                 ELSE FootnotesLoop(references, i + 1, calls + 1, responses,
                                    processed_text, footnotes)
             Parsed(parsed) ==
                 IF parsed = None
                 THEN FootnotesLoop(references, i + 1, calls, responses,
                                    processed_text, footnotes)
                 ELSE Fetched(fetch_bible_text(parsed[1], parsed[2], "en",
                                               responses[calls + 1]))
         IN  Parsed(parse_bible_reference(reference))

\* a process_footnotes that collects the footnotes and leaves the text as it was
process_footnotes_unmarked(text, responses) ==
    <<text, FootnotesLoop(extract_bible_references(text), 1, 0, responses, text, << >>)[2]>>

\* returns <<processed_text, footnotes>>
process_footnotes(text, responses) ==
    FootnotesLoop(extract_bible_references(text), 1, 0, responses, text, << >>)

-----------------------------------------------------------------------------
(* rapidfuzz.fuzz.token_set_ratio as orthodox_dictionary.py calls it (no    *)
(* processor, no score cutoff).  A score is the exact fraction n/d in       *)
(* lowest terms, so that equal scores are equal values.                     *)

RECURSIVE Gcd(_, _)
Gcd(a, b) == IF b = 0 THEN a ELSE Gcd(b, a % b)

Score(n, d) == [n |-> n \div Gcd(n, d), d |-> d \div Gcd(n, d)]

\* float(k) for an integer k
Whole(k) == [n |-> k, d |-> 1]

ScoreGeq(a, b) == a.n * b.d >= b.n * a.d

ScoreGt(a, b) == a.n * b.d > b.n * a.d

\* max of a non-empty set of scores
ScoreMax(S) == CHOOSE a \in S : \A b \in S : ScoreGeq(a, b)

(* One row of the longest-common-subsequence table: row[j] is the length for  *)
(* the prefix of a that ends with ch and b[1..j-1], prev the row before it.   *)
(* ch is either left out (prev[j]) or paired with an equal b[k], k < j.        *)
LcsRow(ch, b, prev) ==
    LET hits == { m \in 1..Len(b) : Char(b, m) = ch }
        row == [j \in 1..(Len(b) + 1) |->
                   Max({prev[j]} \cup { prev[k] + 1 : k \in { m \in hits : m < j } })]
    IN  SubSeq(row, 1, Len(b) + 1)

RECURSIVE LcsRows(_, _, _)
\* the row of the table for a[1..i]
LcsRows(a, b, i) ==
    IF i = 0 THEN [j \in 1..(Len(b) + 1) |-> 0]
    ELSE LcsRow(Char(a, i), b, LcsRows(a, b, i - 1))

\* length of the longest common subsequence of a and b
Lcs(a, b) ==
    IF Len(a) <= Len(b) THEN LcsRows(a, b, Len(a))[Len(b) + 1]
    ELSE LcsRows(b, a, Len(b))[Len(a) + 1]

\* insertions and deletions that turn a into b
indel_distance(a, b) == Len(a) + Len(b) - 2 * Lcs(a, b)

\* 100 - 100 * dist / lensum
norm_distance(dist, lensum) ==
    IF lensum = 0 THEN Whole(100) ELSE Score(100 * (lensum - dist), lensum)

token_set_ratio(s1, s2) ==
    LET tokens_a == Range(RunsOutside(s1, SpaceCh))      \* set(s1.split())
        tokens_b == Range(RunsOutside(s2, SpaceCh))
        intersect == tokens_a \cap tokens_b
        Best(sect_len, result, sect_ab_ratio, sect_ba_ratio) ==
            IF sect_len = 0 THEN result
            ELSE ScoreMax({result, sect_ab_ratio, sect_ba_ratio})
        Ratios(sect_len, sep, ab_len, ba_len, dist) ==
            Best(sect_len,
                 norm_distance(dist, (sect_len + sep + ab_len) + (sect_len + sep + ba_len)),
                 norm_distance(sep + ab_len, sect_len + (sect_len + sep + ab_len)),
                 norm_distance(sep + ba_len, sect_len + (sect_len + sep + ba_len)))
        Joined(diff_ab_joined, diff_ba_joined, sect_len) ==
            Ratios(sect_len, IF sect_len # 0 THEN 1 ELSE 0,
                   Len(diff_ab_joined), Len(diff_ba_joined),
                   indel_distance(diff_ab_joined, diff_ba_joined))
    IN  IF s1 = "" \/ s2 = "" THEN Whole(0)
        ELSE IF tokens_a = {} \/ tokens_b = {} THEN Whole(0)
        ELSE IF intersect # {} /\ (tokens_a \subseteq tokens_b \/ tokens_b \subseteq tokens_a)
        THEN Whole(100)
        ELSE Joined(Join(Sorted(tokens_a \ tokens_b), " "),
                    Join(Sorted(tokens_b \ tokens_a), " "),
                    Len(Join(Sorted(intersect), " ")))

-----------------------------------------------------------------------------
(* orthodox_dictionary.py: OrthodoxDictionary.  terms_dict is the sequence  *)
(* of [term, translations] in insertion order, each term once.              *)

DIRECT_SCORE == 100

WORD_SET_SCORE == 90

(* _load_dictionaries (lines 35-87).  `files' are the files glob.glob gives, *)
(* in its order: [readable, lines].  A line is [kind, pairs]: "blank" is a    *)
(* line of whitespace, "invalid" one json.loads rejects, "not_object" JSON    *)
(* that is no object (array, string, number, null), "object" a JSON object    *)
(* whose items are `pairs', each [key, value, is_string]; is_string = FALSE   *)
(* is a value that is a number, null, an array or an object.                  *)

\* a translation store that appends the translation even when the term has it
StoreTranslationAlways(dict, english_term, chinese_translation) ==
    LET at == { i \in 1..Len(dict) : dict[i].term = english_term }
    IN  IF at = {}
        THEN Append(dict, [term |-> english_term, translations |-> <<chinese_translation>>])
        ELSE [dict EXCEPT ![Min(at)].translations = Append(@, chinese_translation)]

\* lines 68-73
StoreTranslation(dict, english_term, chinese_translation) ==
    LET at == { i \in 1..Len(dict) : dict[i].term = english_term }
    IN  IF at = {}
        THEN Append(dict, [term |-> english_term, translations |-> <<chinese_translation>>])
        ELSE IF chinese_translation \in Range(dict[Min(at)].translations)
        THEN dict
        ELSE [dict EXCEPT ![Min(at)].translations = Append(@, chinese_translation)]

RECURSIVE LoadItems(_, _, _)
(* for english_term, chinese_translation in term_entry.items() (lines 62-73), *)
(* from the i-th item on: the table, and whether an exception left the loop   *)
(* (.strip() of a value that is no string).                                   *)
LoadItems(dict, pairs, i) ==
    IF i > Len(pairs) THEN [terms_dict |-> dict, raised |-> FALSE]
    ELSE IF ~pairs[i].is_string THEN [terms_dict |-> dict, raised |-> TRUE]
    ELSE LoadItems(StoreTranslation(dict, Strip(pairs[i].key), Strip(pairs[i].value)),
                   pairs, i + 1)

RECURSIVE LoadLines(_, _, _)
(* for line in f (lines 57-76), from the i-th line on.  JSONDecodeError is    *)
(* caught at the line (lines 74-76); any other exception leaves the loop and  *)
(* is caught for the file (lines 77-79), the lines after it unread.           *)
LoadLines(dict, lines, i) ==
    IF i > Len(lines) THEN dict
    ELSE IF lines[i].kind = "blank" THEN LoadLines(dict, lines, i + 1)
    ELSE IF lines[i].kind = "invalid" THEN LoadLines(dict, lines, i + 1)
    ELSE IF lines[i].kind = "not_object" THEN dict           \* .items() raises
    ELSE LET Stored(r) == IF r.raised THEN r.terms_dict
                          ELSE LoadLines(r.terms_dict, lines, i + 1)
         IN  Stored(LoadItems(dict, lines[i].pairs, 1))

RECURSIVE LoadFiles(_, _, _)
\* for dict_file in dict_files (lines 53-79), from the i-th file on
LoadFiles(dict, files, i) ==
    IF i > Len(files) THEN dict
    ELSE IF ~files[i].readable THEN LoadFiles(dict, files, i + 1)    \* open() raises
    ELSE LoadFiles(LoadLines(dict, files[i].lines, 1), files, i + 1)

\* the table it returns
_load_dictionaries(files) ==
    IF files = << >> THEN << >> ELSE LoadFiles(<< >>, files, 1)

get_all_english_terms(dict) == [i \in 1..Len(dict) |-> dict[i].term]

\* self.terms_dict[term]
Translations(dict, term) ==
    dict[CHOOSE i \in 1..Len(dict) : dict[i].term = term].translations

RECURSIVE Keep(_, _)
\* the elements of the sequence q that are in the set S, in the order of q
Keep(q, S) ==
    IF q = << >> THEN << >>
    ELSE (IF Head(q) \in S THEN <<Head(q)>> ELSE << >>) \o Keep(Tail(q), S)

\* re.split(r'[.!?]+', text), each piece stripped, the empty ones dropped
Sentences(text) ==
    LET pieces == RunsOutside(text, {".", "!", "?"})
        stripped == [i \in 1..Len(pieces) |-> Strip(pieces[i])]
    IN  Keep(stripped, Range(stripped) \ {""})

\* re.findall(r'\b\w+\b', s)
Words(s) == RunsIn(s, WordCh)

\* first pass: the term is a substring of the sentence, case-insensitively
DirectMatch(term, sentence) == Contains(Lower(sentence), Lower(term))

\* a second pass that also takes a term of a single word
WordSetMatchAnyLength(term, sentence) ==
    LET words == Words(Lower(sentence))
        term_words == Words(Lower(term))
    IN  Range(term_words) \subseteq Range(words)

\* second pass: all words of the term are words of the sentence, and the term has several
WordSetMatch(term, sentence) ==
    LET words == Words(Lower(sentence))
        term_words == Words(Lower(term))
    IN  Range(term_words) \subseteq Range(words) /\ Len(term_words) > 1

RECURSIVE FuzzyPassUnfiltered(_, _, _, _)
\* a third pass that reports every term not yet matched, whatever its score
FuzzyPassUnfiltered(dict, unmatched, sentence, fuzzy_min_score) ==
    IF unmatched = << >> THEN << >>
    ELSE << [term |-> Head(unmatched), translations |-> Translations(dict, Head(unmatched)),
             score |-> token_set_ratio(Lower(Head(unmatched)), Lower(sentence))] >>
         \o FuzzyPassUnfiltered(dict, Tail(unmatched), sentence, fuzzy_min_score)

RECURSIVE FuzzyPass(_, _, _, _)
\* third pass, over the terms not matched before: those that score fuzzy_min_score or more
FuzzyPass(dict, unmatched, sentence, fuzzy_min_score) ==
    IF unmatched = << >> THEN << >>
    ELSE LET term == Head(unmatched)
             Scored(score) ==
                 IF ScoreGeq(score, Whole(fuzzy_min_score))
                 THEN << [term |-> term, translations |-> Translations(dict, term),
                          score |-> score] >>
                 ELSE << >>
         IN  Scored(token_set_ratio(Lower(term), Lower(sentence)))
             \o FuzzyPass(dict, Tail(unmatched), sentence, fuzzy_min_score)

\* the matches of one sentence: direct ones, then word-level ones, then fuzzy ones
SentenceMatches(dict, sentence, fuzzy_min_score) ==
    LET english_terms == get_all_english_terms(dict)
        terms == Range(english_terms)
        Matched(found, score) ==
            [i \in 1..Len(found) |->
                [term |-> found[i], translations |-> Translations(dict, found[i]),
                 score |-> Whole(score)]]
        Passes(directly, by_words) ==
            Matched(Keep(english_terms, directly), DIRECT_SCORE)
            \o Matched(Keep(english_terms, by_words), WORD_SET_SCORE)
            \o FuzzyPass(dict, Keep(english_terms, terms \ (directly \cup by_words)),
                         sentence, fuzzy_min_score)
        WordLevel(directly) ==
            Passes(directly, { t \in terms \ directly : WordSetMatch(t, sentence) })
    IN  WordLevel({ t \in terms : DirectMatch(t, sentence) })

RECURSIVE AllMatches(_, _, _, _)
\* all_matches: the matches of the sentences from the i-th on, in order
AllMatches(dict, sentences, i, fuzzy_min_score) ==
    IF i > Len(sentences) THEN << >>
    ELSE SentenceMatches(dict, sentences[i], fuzzy_min_score)
         \o AllMatches(dict, sentences, i + 1, fuzzy_min_score)

\* a duplicate removal that keeps the first score seen for a term
PutIfAbsent(unique_matches, m) ==
    IF \E i \in 1..Len(unique_matches) : unique_matches[i].term = m.term
    THEN unique_matches
    ELSE Append(unique_matches, m)

\* unique_matches[term] = (translations, score) if absent or score is higher
PutIfHigher(unique_matches, m) ==
    LET at == { i \in 1..Len(unique_matches) : unique_matches[i].term = m.term }
    IN  IF at = {} THEN Append(unique_matches, m)
        ELSE LET i == Min(at)
             IN  IF ScoreGt(m.score, unique_matches[i].score)
                 THEN [unique_matches EXCEPT ![i] = m]
                 ELSE unique_matches

RECURSIVE RemoveDuplicates(_, _, _)
RemoveDuplicates(all_matches, i, unique_matches) ==
    IF i > Len(all_matches) THEN unique_matches
    ELSE RemoveDuplicates(all_matches, i + 1, PutIfHigher(unique_matches, all_matches[i]))

\* an insertion that leaves the entries in the order the dictionary gave them
InsertLast(sorted, m) == Append(sorted, m)

\* insert m after the entries whose score is >= its score: a stable descending sort
InsertByScore(sorted, m) ==
    LET before == { i \in 1..Len(sorted) : ScoreGeq(sorted[i].score, m.score) }
        k == IF before = {} THEN 0 ELSE Max(before)
    IN  SubSeq(sorted, 1, k) \o <<m>> \o SubSeq(sorted, k + 1, Len(sorted))

RECURSIVE SortByScore(_, _, _)
\* list.sort(key=score, reverse=True)
SortByScore(result, i, sorted) ==
    IF i > Len(result) THEN sorted
    ELSE SortByScore(result, i + 1, InsertByScore(sorted, result[i]))

\* a threshold that stays what the object holds, whatever the session has
CurrentMinScoreKept(session, own) == own

\* the threshold find_matching_terms uses: the session's when it has one
CurrentMinScore(session, own) == IF session # None THEN session[1] ELSE own

\* the list it returns, given the threshold in force
find_matching_terms(dict, text, fuzzy_min_score) ==
    LET Result(all_matches) == RemoveDuplicates(all_matches, 1, << >>)
    IN  SortByScore(Result(AllMatches(dict, Sentences(text), 1, fuzzy_min_score)), 1, << >>)

-----------------------------------------------------------------------------
(* orthodox_dictionary.py: create_dictionary_prompt *)

RECURSIVE DictionaryLines(_, _)
\* one line for each match from the i-th on
DictionaryLines(matches, i) ==
    IF i > Len(matches) THEN ""
    ELSE LET english == matches[i].term
             chinese_translations == matches[i].translations
         IN  (IF Len(chinese_translations) = 1
              THEN "- \"" \o english \o "\": \"" \o chinese_translations[1] \o "\"\n"
              ELSE "- \"" \o english \o "\": [\"" \o Join(chinese_translations, "\", \"")
                   \o "\"] (choose the most appropriate translation based on context)\n")
             \o DictionaryLines(matches, i + 1)

\* a create_dictionary_prompt that renders the block around no line for an empty match list
create_dictionary_prompt_stub(matches) ==
    "\nWhen translating the text, you MUST use the following dictionary of special "
    \o "Orthodox Christian terms:\n\n"
    \o DictionaryLines(matches, 1)
    \o "\nThese translations for specialized Orthodox terms are authoritative and must "
    \o "be used exactly as provided. "
    \o "When multiple translations are available for a term, select the most appropriate "
    \o "one based on the context.\n"

\* a create_dictionary_prompt that renders every match list as the empty string
create_dictionary_prompt_empty(matches) == ""

create_dictionary_prompt(matches) ==
    IF matches = << >> THEN ""
    ELSE "\nWhen translating the text, you MUST use the following dictionary of special "
         \o "Orthodox Christian terms:\n\n"
         \o DictionaryLines(matches, 1)
         \o "\nThese translations for specialized Orthodox terms are authoritative and must "
         \o "be used exactly as provided. "
         \o "When multiple translations are available for a term, select the most appropriate "
         \o "one based on the context.\n"

-----------------------------------------------------------------------------
(* constants.py.  The four Chinese characters in parentheses in line 11 are  *)
(* written in Latin letters.                                                  *)

ORTHODOX_TRANSLATION_PROMPT ==
    "You are an Orthodox Christian translator from English to Chinese that uses traditional Chi"
    \o "nese characters. You have deep knowledge of Orthodox Christian theology, liturgy, and term"
    \o "inology. When translating Orthodox Christian texts, please:\n"
    \o "\n"
    \o "1. Use traditional Chinese characters (fan ti zhong wen)\n"
    \o "2. Maintain the theological accuracy and reverence of Orthodox Christian concepts\n"
    \o "3. Use appropriate Chinese Orthodox Christian terminology when available\n"
    \o "4. Preserve the liturgical and spiritual tone of the original text\n"
    \o "\n"

BIBLE_ANNOTATION_PROMPT ==
    "You are an Orthodox Christian expert in theology and Bible studies. \n"
    \o "Identify and annotate any possible quotes from the Bible in the text below. \n"
    \o "Modify the original text so that after each identified quote, there will be a reference (i"
    \o "n parenthesis) to the corresponding location of Bible from which the quote was taken in th"
    \o "e standard form. e.g. John 1:2-5 refers to Gospel of John, chapter 1, verses 2-5. \n"
    \o "After processing text return the text with Bible references (if found any). IMPORTANT: If "
    \o "no quotes were found in the entire text, just return the original text.\n"
    \o "Text to analyze:"
-----------------------------------------------------------------------------
(* utils.py *)

separators == <<":", ".", ",", "-", ";", "\n">>

RECURSIVE SeparatorLoop(_, _, _, _, _, _)
\* the loop over the separators from the i-th on (lines 45-50)
SeparatorLoop(user_message, command_prefix, i, min_pos, command_part, text_to_process) ==
    IF i > Len(separators) THEN <<command_part, text_to_process>>
    ELSE LET pos == Find(user_message, separators[i], Len(command_prefix))
         IN  IF pos > 0 /\ pos < min_pos
             THEN SeparatorLoop(user_message, command_prefix, i + 1, pos,
                                Slice(user_message, 0, pos + 1),
                                Strip(SliceFrom(user_message, pos + 1)))
             ELSE SeparatorLoop(user_message, command_prefix, i + 1, min_pos,
                                command_part, text_to_process)

\* returns <<command_part, text_to_process>>
extract_command_and_text(user_message, command_prefix) ==
    IF ~StartsWith(Lower(user_message), Lower(command_prefix))
    THEN <<"", user_message>>
    ELSE LET found == SeparatorLoop(user_message, command_prefix, 1, Len(user_message),
                                    user_message, "")
         IN  IF found[2] = ""
             THEN <<command_prefix, Strip(SliceFrom(user_message, Len(command_prefix)))>>
             ELSE found

RECURSIVE TranslationsLoop(_, _, _, _)
(* The loop of get_bible_quote_translations from its i-th reference on;      *)
(* `calls' counts the POSTs made so far, two for every reference that parses. *)
TranslationsLoop(references, i, calls, responses) ==
    IF i > Len(references) THEN << >>
    ELSE LET Fetched(english_text, chinese_text) ==
                 (IF Truthy(english_text) /\ Truthy(chinese_text)
                  THEN << <<english_text[1], chinese_text[1]>> >>
                  ELSE << >>)
                 \o TranslationsLoop(references, i + 1, calls + 2, responses)
             Parsed(parsed) ==
                 IF parsed = None
                 THEN TranslationsLoop(references, i + 1, calls, responses)
                 ELSE Fetched(fetch_bible_text(parsed[1], parsed[2], "en",
                                               responses[calls + 1]),
                              fetch_bible_text(parsed[1], parsed[2], "hk",
                                               responses[calls + 2]))
         IN  Parsed(parse_bible_reference(references[i][1]))

\* a get_bible_quote_translations that gives up every quote when one citation fails
get_bible_quote_translations_all_or_none(text, responses) ==
    LET Complete(references, got) == IF Len(got) = Len(references) THEN got ELSE << >>
        Extracted(references) ==
            Complete(references, TranslationsLoop(references, 1, 0, responses))
    IN  Extracted(extract_bible_references(text))

\* the list of (english_quote, chinese_quote)
get_bible_quote_translations(text, responses) ==
    TranslationsLoop(extract_bible_references(text), 1, 0, responses)

\* the longest English quote that is inserted whole
MAX_QUOTE == 150

RECURSIVE QuoteLines(_, _)
\* lines 173-177
QuoteLines(bible_translations, i) ==
    IF i > Len(bible_translations) THEN ""
    ELSE LET english_quote == bible_translations[i][1]
             chinese_quote == bible_translations[i][2]
             eng_quote == IF Len(english_quote) > MAX_QUOTE
                          THEN Slice(english_quote, 0, MAX_QUOTE) \o "..."
                          ELSE english_quote
         IN  "- \"" \o eng_quote \o "\": \"" \o chinese_quote \o "\"\n"
             \o QuoteLines(bible_translations, i + 1)

RECURSIVE FootnoteLines(_, _)
\* lines 120-121
FootnoteLines(footnotes, i) ==
    IF i > Len(footnotes) THEN ""
    ELSE "[" \o Dec(i) \o "] " \o footnotes[i].reference \o ": " \o footnotes[i].text \o "\n"
         \o FootnoteLines(footnotes, i + 1)

(* The try block of the "add footnotes" branch (lines 113-123): the prompt,  *)
(* or the exception that leaves it.  `fault' is an exception raised inside   *)
(* process_footnotes by what the model leaves out (None when there is none). *)
footnotes_try(text_to_process, responses, fault) ==
    IF fault # None THEN Raise(fault[1])
    ELSE LET Prompt(done) ==
                 "Please format the following text with Bible footnotes. Add the footnote "
                 \o "text at the end of the document, with each footnote on a new line. The "
                 \o "footnotes have already been marked with [n] in the text.\n\n"
                 \o done[1] \o "\n\n"
                 \o "Footnotes:\n"
                 \o FootnoteLines(done[2], 1)
         IN  Some(Prompt(process_footnotes(text_to_process, responses)))

\* a handling of the try block's outcome that lets the exception through
footnotes_query_unguarded(tried) ==
    IF IsRaise(tried) THEN [raised |-> Some(tried[2]), processed_query |-> ""]
    ELSE [raised |-> None, processed_query |-> tried[1]]

\* the try block's outcome after the except clause (lines 124-125)
footnotes_query(tried) ==
    IF IsRaise(tried)
    THEN [raised |-> None,
          processed_query |->
              "I encountered an error processing the Bible references: " \o tried[2]
              \o ". Please make sure the text contains valid Bible references in parentheses, "
              \o "such as (John 3:16) or (Romans 8:28-30)."]
    ELSE [raised |-> None, processed_query |-> tried[1]]

\* a classification that looks for the command anywhere in the message
command_type_anywhere(user_message, orthodox_enabled) ==
    LET user_message_lower == Strip(Lower(user_message))
    IN  IF Contains(user_message_lower, "add footnotes") THEN "add_footnotes"
        ELSE IF Contains(user_message_lower, "annotate") THEN "annotate"
        ELSE IF Contains(user_message_lower, "translate") /\ orthodox_enabled
        THEN "translate_orthodox"
        ELSE "normal"

\* the branch process_user_message takes (the tests of lines 101-149)
command_type_of(user_message, orthodox_enabled) ==
    LET user_message_lower == Strip(Lower(user_message))
    IN  IF StartsWith(user_message_lower, "add footnotes") THEN "add_footnotes"
        ELSE IF StartsWith(user_message_lower, "annotate") THEN "annotate"
        ELSE IF StartsWith(user_message_lower, "translate") /\ orthodox_enabled
        THEN "translate_orthodox"
        ELSE "normal"

\* whether the call reaches orthodox_dict.find_matching_terms (line 158)
calls_find_matching_terms(user_message, orthodox_enabled) ==
    /\ command_type_of(user_message, orthodox_enabled) = "translate_orthodox"
    /\ extract_command_and_text(user_message, "translate")[2] # ""

\* the appends of lines 130-192 made on the caller's own list object
AppendInPlace(messages, message) ==
    [processed_messages |-> Append(messages, message),
     messages |-> Append(messages, message)]

\* messages.copy() (line 97) and the one append of the branch taken (lines
\* 130, 146, 188, 192): the list that is returned, and the caller's list
CopyAndAppend(messages, message) ==
    [processed_messages |-> Append(messages, message),
     messages |-> messages]

(* process_user_message.  `dict' and `fuzzy_min_score' are orthodox_dict's    *)
(* table and the threshold in force, `responses' the passage service's        *)
(* answers to the successive POSTs.  The outcome is the returned tuple, or   *)
(* the exception that leaves the function in `raised', together with the      *)
(* caller's list as the call leaves it in `messages'.                         *)
process_user_message(user_message, messages, orthodox_enabled, dict, fuzzy_min_score, responses, fault) ==
    LET command_type == command_type_of(user_message, orthodox_enabled)
        Lists(lists, processed_query) ==
            [raised |-> None,
             processed_messages |-> lists.processed_messages,
             messages |-> lists.messages,
             command_type |-> command_type,
             processed_query |-> processed_query]
        Returned(processed_query, content) ==
            Lists(CopyAndAppend(messages, [role |-> "user", content |-> content]),
                  processed_query)
        Clarification(processed_query) == Returned(processed_query, processed_query)
    IN  IF command_type = "add_footnotes"
        THEN LET Made(made) ==
                     IF made.raised # None
                     THEN [raised |-> made.raised, processed_messages |-> << >>,
                           messages |-> messages,
                           command_type |-> "", processed_query |-> ""]
                     ELSE Returned(made.processed_query, made.processed_query)
                 Footnotes(text_to_process) ==
                     IF text_to_process = ""
                     THEN Clarification(
                              "Please provide the annotated text you would like to add Bible "
                              \o "footnotes to. The text should already contain Bible references "
                              \o "in parentheses, such as (John 3:16) or (Romans 8:28-30).")
                     ELSE Made(footnotes_query(footnotes_try(text_to_process, responses, fault)))
             IN  Footnotes(extract_command_and_text(user_message, "add footnotes")[2])
        ELSE IF command_type = "annotate"
        THEN LET Annotate(text_to_annotate) ==
                     IF text_to_annotate # ""
                     THEN BIBLE_ANNOTATION_PROMPT \o "\n\n" \o text_to_annotate
                     ELSE BIBLE_ANNOTATION_PROMPT \o "\n\n(Please provide the text you would "
                          \o "like me to analyze for Bible quotes.)"
             IN  Clarification(Annotate(extract_command_and_text(user_message, "annotate")[2]))
        ELSE IF command_type = "translate_orthodox"
        THEN LET WithQuotes(dictionary_prompt, bible_translations) ==
                     IF bible_translations = << >> THEN dictionary_prompt
                     ELSE (IF dictionary_prompt = ""
                           THEN "\nWhen translating the text, you MUST use the following "
                                \o "dictionary of terms:\n\n"
                           ELSE dictionary_prompt
                                \o "\nAdditionally, use these translations for Bible quotes "
                                \o "found in the text:\n\n")
                          \o QuoteLines(bible_translations, 1)
                          \o "\nThese translations for Bible quotes are authoritative and "
                          \o "must be used exactly as provided.\n"
                 Translate(text_to_translate) ==
                     IF text_to_translate # ""
                     THEN ORTHODOX_TRANSLATION_PROMPT
                          \o WithQuotes(
                                 create_dictionary_prompt(
                                     find_matching_terms(dict, text_to_translate,
                                                         fuzzy_min_score)),
                                 get_bible_quote_translations(text_to_translate, responses))
                          \o "\n\n"
                          \o "Please translate the following text:\n\n" \o text_to_translate
                     ELSE ORTHODOX_TRANSLATION_PROMPT \o "\n\n(Please provide the English text "
                          \o "you would like me to translate to traditional Chinese.)"
             IN  Clarification(Translate(extract_command_and_text(user_message, "translate")[2]))
        ELSE Returned(user_message, user_message)

-----------------------------------------------------------------------------
(* fuzzy_match.py: the construction of AdvancedFuzzyMatcher.  A weight is a   *)
(* whole number of tenths, a normalized weight the exact fraction n/d.        *)

\* the default of the parameter min_score (line 17)
MATCHER_MIN_SCORE == 80

\* sum(self.weights.values()) (line 41)
TotalWeight(weights) ==
    weights.token_set + weights.token_sort + weights.partial + weights.ratio

\* {k: v/total_weight for k, v in self.weights.items()} (line 42)
Normalize(weights, total_weight) ==
    IF total_weight = 0 THEN Raise("ZeroDivisionError")
    ELSE Some([token_set |-> Score(weights.token_set, total_weight),
               token_sort |-> Score(weights.token_sort, total_weight),
               partial |-> Score(weights.partial, total_weight),
               ratio |-> Score(weights.ratio, total_weight)])

\* AdvancedFuzzyMatcher.__init__, `threshold' being its parameter min_score:
\* the fields of the object, or the exception that leaves the constructor in
\* `raised'
AdvancedFuzzyMatcher(threshold, token_set_weight, token_sort_weight, partial_weight, ratio_weight) ==
    LET Made(normalized) ==
            IF IsRaise(normalized)
            THEN [raised |-> Some(normalized[2]), min_score |-> threshold, weights |-> None]
            ELSE [raised |-> None, min_score |-> threshold, weights |-> normalized]
        Given(weights) == Made(Normalize(weights, TotalWeight(weights)))
    IN  Given([token_set |-> token_set_weight, token_sort |-> token_sort_weight,
               partial |-> partial_weight, ratio |-> ratio_weight])

-----------------------------------------------------------------------------
(* app.py: the basic chat.  An answer of the model service is                *)
(* [transport, status, body]: `transport' is "ok", "timeout" or "connection", *)
(* `body' is "invalid" (not JSON), "no_choices", "empty_choices",             *)
(* "no_message" (a choice without message.content), "null_content" or        *)
(* "content", the content being `content'.                                   *)

\* ORTHODOX_TRANSLATION_PROMPT of app.py (lines 83-92), which differs from the
\* one of constants.py; the four Chinese characters are written in Latin letters
APP_ORTHODOX_TRANSLATION_PROMPT ==
    "You are an Orthodox Christian translator from English to Chinese that uses traditional Chi"
    \o "nese characters. You have deep knowledge of Orthodox Christian theology, liturgy, and term"
    \o "inology. When translating Orthodox Christian texts, please:\n"
    \o "\n"
    \o "1. Use traditional Chinese characters (fan ti zhong wen)\n"
    \o "2. Maintain the theological accuracy and reverence of Orthodox Christian concepts\n"
    \o "3. Use appropriate Chinese Orthodox Christian terminology when available\n"
    \o "4. Preserve the liturgical and spiritual tone of the original text\n"
    \o "5. If encountering specific Orthodox terms (like \"theosis\", \"hesychasm\", \"economia\"), "
    \o "provide both translation and brief explanation if needed\n"
    \o "6. Be mindful of the sacred nature of liturgical and theological texts\n"
    \o "\n"
    \o "Please translate the following text:"

\* the text after a command word found anywhere in the message (app.py lines
\* 280-288 and 304-312): what follows the word when the message starts with it,
\* the whole message otherwise
TextAfterCommand(user_message, word) ==
    IF Find(Lower(user_message), word, 0) = 0
    THEN Strip(SliceFrom(user_message, Len(word)))
    ELSE user_message

\* process_user_message of app.py (lines 261-328), the one basic_chat calls
app_process_user_message(user_message, messages, orthodox_enabled) ==
    LET Returned(command_type, processed_query, content) ==
            [processed_messages |-> Append(messages, [role |-> "user", content |-> content]),
             command_type |-> command_type,
             processed_query |-> processed_query]
        Query(command_type, processed_query) ==
            Returned(command_type, processed_query, processed_query)
        Prompted(command_type, prompt_text, text, clarification) ==
            Query(command_type,
                  IF text # "" THEN prompt_text \o "\n\n" \o text
                  ELSE prompt_text \o "\n\n" \o clarification)
    IN  IF Contains(Lower(user_message), "annotate")
        THEN Prompted("annotate", BIBLE_ANNOTATION_PROMPT,
                      TextAfterCommand(user_message, "annotate"),
                      "(Please provide the text you would like me to analyze for Bible quotes.)")
        ELSE IF Contains(Lower(user_message), "translate") /\ orthodox_enabled
        THEN Prompted("translate_orthodox", APP_ORTHODOX_TRANSLATION_PROMPT,
                      TextAfterCommand(user_message, "translate"),
                      "(Please provide the English text you would like me to translate to "
                      \o "traditional Chinese.)")
        ELSE IF Contains(Lower(user_message), "translate")
        THEN Returned("translate_standard", user_message, user_message)
        ELSE Returned("normal", user_message, user_message)

\* call_openrouter_api (lines 180-240): the content of the first choice, or None
call_openrouter_api(messages, model, api_key, answer) ==
    IF api_key = "" THEN None
    ELSE IF answer.transport # "ok" THEN None        \* Timeout, ConnectionError
    ELSE IF answer.status # HTTP_OK THEN None
    ELSE IF answer.body = "invalid" THEN None        \* JSONDecodeError
    ELSE IF answer.body \in {"no_choices", "empty_choices"} THEN None
    ELSE IF answer.body = "no_message" THEN None     \* KeyError, caught at line 238
    ELSE IF answer.body = "null_content" THEN None
    ELSE Some(answer.content)

\* lines 737-743: the answer is appended, or the user message is popped when
\* the response is None or empty
AnsweredOrPopped(stored, response) ==
    IF Truthy(response)
    THEN Append(stored, [role |-> "assistant", content |-> response[1]])
    ELSE SubSeq(stored, 1, Len(stored) - 1)

-----------------------------------------------------------------------------
(* The inputs that are enumerated. *)

\* Book names as written in a citation, with the key the abbreviation table
\* (bible_service.py:24-55) or its fallback gives them.
Books == {
    <<"John", "john">>, <<"JOHN", "john">>, <<"1 Corinthians", "1cor">>,
    <<"1 Cor", "1cor">>, <<"I Cor", "1cor">>, <<"Song of Solomon", "song">>,
    <<"Psalm", "ps">>, <<"3 Jn", "3john">>, <<"Romans", "rom">>,
    <<"Tobit", "tobit">>, <<"Foo Bar", "foobar">>, <<"4 Ezra", "4ezra">> }

Nums == 1..MaxNum

\* <book> <chapter>:<start>[-<end>], optionally in one pair of parentheses
Citation(book, chapter, start, end, wrap) ==
    (IF wrap THEN "(" ELSE "")
    \o book \o " " \o Dec(chapter) \o ":" \o Dec(start)
    \o (IF end = None THEN "" ELSE "-" \o Dec(end[1]))
    \o (IF wrap THEN ")" ELSE "")

OtherRefs == {
    "NotABook", "", "(", "()", "John", "John 3", "John 3:", "John 3:x", "John3:16",
    "John 3.16", "3:16", "John:3:16", "John 3:16x", "John 3:16 and 17", "John 3:16-",
    "John 3:16-18-20", "John  3 : 16 - 18", "(John 3:16", "John 3:16)", "((John 3:16))",
    "John a:1", "Jo-hn 3:16", "John\t3:16", "John3:16", "John 3:16",
    "1\tCor\n13:4", "John 3:16 (KJV)",
    "see John 3:16", "John 3 16:2", "x1 2:3", "_ 1:2", "(  Mark 1 : 2  )" }

Pads == { Repeat(" ", n) : n \in 0..MaxPad } \cup {"\n"}

VerseItems == {
    [kind |-> "verse", text |-> "In the beginning"],
    [kind |-> "verse", text |-> " was the Word "],
    [kind |-> "verse", text |-> ""],
    [kind |-> "no_text", text |-> ""],        \* an object without a 'text' key
    [kind |-> "not_object", text |-> ""] }    \* a string, number, list or null

RECURSIVE SeqsUpTo(_, _)
\* all sequences over S of length at most n
SeqsUpTo(S, n) ==
    IF n = 0 THEN { << >> }
    ELSE LET shorter == SeqsUpTo(S, n - 1)
         IN  shorter \cup { Append(q, x) : q \in shorter, x \in S }

Bodies ==
    { [json |-> j, items |-> << >>] : j \in {"invalid", "null", "object"} }
    \cup { [json |-> "array", items |-> it] : it \in SeqsUpTo(VerseItems, MaxVerses) }

Responses ==
    { [transport |-> FALSE, status |-> 0, body |-> [json |-> "invalid", items |-> << >>]] }
    \cup { [transport |-> TRUE, status |-> st, body |-> b] :
             st \in {HTTP_OK, 204, 404, 500}, b \in Bodies }

RECURSIVE VersesOf(_)
VersesOf(texts) ==
    IF texts = << >> THEN << >>
    ELSE << [kind |-> "verse", text |-> Head(texts)] >> \o VersesOf(Tail(texts))

\* a 200 response carrying the given verse texts
Passage(texts) ==
    [transport |-> TRUE, status |-> HTTP_OK,
     body |-> [json |-> "array", items |-> VersesOf(texts)]]

\* the answers of the passage service tried where the answer's details do not matter
ServiceAnswers == {
    Passage(<<"For God so loved the world">>),
    Passage(<<"">>),
    [transport |-> TRUE, status |-> 404, body |-> [json |-> "object", items |-> << >>]],
    [transport |-> FALSE, status |-> 0, body |-> [json |-> "invalid", items |-> << >>]] }

\* parenthesized pieces of text: citations, and parentheses that are none
Parentheticals == {
    "(John 3:16)", "(Romans 8:28-30)", "(1 Cor 13:4)", "(  3:16)", "(see below)" }

\* texts with up to MaxRefs parenthesized pieces
AnnotatedTexts ==
    { "Love is patient " \o Join(ps, ", so it is written ") \o "." :
        ps \in SeqsUpTo(Parentheticals, MaxRefs) }

\* texts whose parentheses are nested, unclosed, or hold more than a citation
OddTexts == {
    "", "()", "(John 3:16", "John 3:16)", "((John 3:16))", "(John 3:16 )", "( John 3:16)",
    "(John 3:16-18-20)", "(John 3:16 (KJV))", "(see (John  3 : 16 - 18) and (Jn 1:1)",
    "(John 3:16)(John 3:16)", "(John 3:16-)", "(John 3:16; 4:1)", "(John\n3:16)",
    "(Jo-hn 3:16)", "(3:16)", "(1 2:3)" }

DefaultMinScore == 65

\* how a message begins, after its leading whitespace
Heads == {
    "add footnotes", "Add Footnotes", "annotate", "ANNOTATE", "translate", "Translate",
    "please annotate", "Hello", "" }

\* how it goes on
Tails == {
    "", ":", " ", ": Love is patient (1 Cor 13:4), spirit most holy",
    " divine liturgies", "\nGrace and peace", ". the Divine Liturgy; Holy Spirit" }

\* translate messages that cite twice: two citations, and one that does not
\* parse before one that does
QuoteMessages == {
    "translate: God is love (John 3:16), and love is patient (1 Cor 13:4)",
    "translate: It is written (  3:16) that God is love (John 3:16)" }

UserMessages == { p \o h \o t : p \in Pads, h \in Heads, t \in Tails } \cup QuoteMessages

\* the conversation so far
Histories == {
    << >>,
    << [role |-> "user", content |-> "Hi"], [role |-> "assistant", content |-> "Hello"] >> }

\* a passage longer than MAX_QUOTE characters
LongPassage ==
    Passage(<<"Love is patient, love is kind. It does not envy, it does not boast, it is "
              \o "not proud. It does not dishonor others, it is not self-seeking, it is not "
              \o "easily angered, it keeps no record of wrongs.">>)

\* the answers of the passage service to the POSTs of one message
AnswerPlans ==
    LET answers == { Passage(<<"Love is patient">>), LongPassage,
                     [transport |-> FALSE, status |-> 0,
                      body |-> [json |-> "invalid", items |-> << >>]] }
        failed == [transport |-> TRUE, status |-> 404,
                   body |-> [json |-> "object", items |-> << >>]]
    IN  { <<a, b>> : a \in answers, b \in answers }
        \cup { <<a, b, c, d>> :
                   a \in { Passage(<<"For God so loved the world">>), failed },
                   b \in { Passage(<<"shen ai shi ren">>), failed },
                   c \in { Passage(<<"Love is patient">>), failed },
                   d \in { Passage(<<"ai shi heng jiu ren nai">>), Passage(<<"">>) } }

\* exceptions raised inside process_footnotes by what the model leaves out
Faults == { None, Some("out of memory") }

(* Dictionary entries.  The translations are Chinese in the dictionary files; *)
(* the program only copies them, and they are written here in Latin letters.  *)
EntryList == <<
    [term |-> "Holy Spirit",    translations |-> <<"sheng shen">>],
    [term |-> "St. John",       translations |-> <<"sheng yue han">>],
    [term |-> "Divine Liturgy", translations |-> <<"shi li", "sheng li yi">>],
    [term |-> "Amen!",          translations |-> <<"a men">>] >>

RECURSIVE SubSeqs(_)
\* the sub-sequences of q: any of its elements, in the order of q
SubSeqs(q) ==
    IF q = << >> THEN { << >> }
    ELSE LET rest == SubSeqs(Tail(q))
         IN  rest \cup { <<Head(q)>> \o r : r \in rest }

\* the dictionaries of at most MaxTerms of the entries
Dictionaries == { d \in SubSeqs(EntryList) : Len(d) <= MaxTerms }

\* values of st.session_state.orthodox_min_score: unset, or a threshold
SessionMinScores == {None, Some(50), Some(90)}

\* pieces of input text
Phrases == {
    "the Holy Spirit descends",
    "spirit most holy",
    "divine liturgies",
    "Holy Spir",
    "St. John came by grace! Amen" }

\* texts of at most MaxSentences pieces, each closed by a full stop
Texts == { Join(ps, ". ") \o "." : ps \in SeqsUpTo(Phrases, MaxSentences) }

\* a line that holds the JSON object {key: value}
Record(key, value) ==
    [kind |-> "object", pairs |-> << [key |-> key, value |-> value, is_string |-> TRUE] >>]

\* lines of a dictionary file
DictLines == {
    [kind |-> "blank", pairs |-> << >>],
    [kind |-> "invalid", pairs |-> << >>],
    [kind |-> "not_object", pairs |-> << >>],
    Record("grace", "en chong"),
    Record(" grace ", "en dian "),
    Record("Holy Spirit", "sheng shen"),
    [kind |-> "object",                      \* {"mercy": 5}
     pairs |-> << [key |-> "mercy", value |-> "", is_string |-> FALSE] >>],
    [kind |-> "object",                      \* {"Theotokos": "sheng mu", "mercy": null}
     pairs |-> << [key |-> "Theotokos", value |-> "sheng mu", is_string |-> TRUE],
                  [key |-> "mercy", value |-> "", is_string |-> FALSE] >>] }

\* the files that come after the first one
LaterFiles == {
    [readable |-> TRUE, lines |-> << Record("Trinity", "san yi"), Record("grace", "en chong") >>],
    [readable |-> FALSE, lines |-> << >>] }

\* what glob.glob finds: no file, one file of at most MaxLines lines, that
\* file and a later one, or an unreadable file and that file
DictFileLists ==
    LET firsts == { [readable |-> TRUE, lines |-> ls] : ls \in SeqsUpTo(DictLines, MaxLines) }
    IN  { << >> }
        \cup { <<f>> : f \in firsts }
        \cup { <<f, g>> : f \in firsts, g \in LaterFiles }
        \cup { << [readable |-> FALSE, lines |-> << >>], f >> : f \in firsts }

-----------------------------------------------------------------------------
(* The state machine. *)

Init ==
    /\ terms_dict = << >>
    /\ session_min_score = None
    /\ min_score = DefaultMinScore
    /\ matcher_min_score = DefaultMinScore
    /\ session_messages = << >>
    /\ call = [op |-> "init"]
    /\ ret = [nothing |-> TRUE]

\* Each behaviour makes one call from the initial state: the functions below
\* keep no state between calls other than the variables they are given here.
Idle == call.op = "init"

\* parse_bible_reference on a citation <book> <chapter>:<start>[-<end>]
ParseCitation ==
    \E b \in Books, c \in Nums, s \in {4, MaxNum}, e \in {None, Some(5), Some(MaxNum + 1)},
       w \in BOOLEAN, p \in Pads :
        /\ Idle
        /\ call' = [op |-> "parse_bible_reference",
                    reference |-> p \o Citation(b[1], c, s, e, w) \o p,
                    cite |-> Some([book |-> b[1], key |-> b[2], chapter |-> c,
                                   start |-> s, end |-> e, wrap |-> w])]
        /\ ret' = [parsed |-> parse_bible_reference(p \o Citation(b[1], c, s, e, w) \o p)]
        /\ UNCHANGED <<terms_dict, session_min_score, min_score, matcher_min_score,
                     session_messages>>

\* parse_bible_reference on any other string
ParseOther ==
    \E r \in OtherRefs, p \in Pads, q \in Pads :
        /\ Idle
        /\ call' = [op |-> "parse_bible_reference", reference |-> p \o r \o q,
                    cite |-> None]
        /\ ret' = [parsed |-> parse_bible_reference(p \o r \o q)]
        /\ UNCHANGED <<terms_dict, session_min_score, min_score, matcher_min_score,
                     session_messages>>

FetchBibleText ==
    \E book \in {"john", "1cor"}, lang \in {"en", "hk"}, response \in Responses :
        /\ Idle
        /\ call' = [op |-> "fetch_bible_text", book_name |-> book,
                    where_expr |-> "chapter=1 AND verse>=1 AND verse<=1",
                    lang |-> lang, response |-> response]
        /\ ret' = [bible_text |->
                       fetch_bible_text(book, "chapter=1 AND verse>=1 AND verse<=1",
                                        lang, response)]
        /\ UNCHANGED <<terms_dict, session_min_score, min_score, matcher_min_score,
                     session_messages>>

ExtractBibleReferences ==
    \E text \in AnnotatedTexts \cup OddTexts :
        /\ Idle
        /\ call' = [op |-> "extract_bible_references", text |-> text]
        /\ ret' = [references |-> extract_bible_references(text)]
        /\ UNCHANGED <<terms_dict, session_min_score, min_score, matcher_min_score,
                     session_messages>>

ProcessFootnotes ==
    \E text \in AnnotatedTexts, responses \in SeqsUpTo(ServiceAnswers, MaxRefs) :
        /\ Idle
        /\ Len(responses) = Count(text, "(")     \* an answer for every POST it can make
        /\ call' = [op |-> "process_footnotes", text |-> text, responses |-> responses]
        /\ ret' = LET Returned(done) == [processed_text |-> done[1], footnotes |-> done[2]]
                   IN  Returned(process_footnotes(text, responses))
        /\ UNCHANGED <<terms_dict, session_min_score, min_score, matcher_min_score,
                     session_messages>>

\* self.terms_dict = self._load_dictionaries() (line 25)
LoadDictionaries ==
    \E files \in DictFileLists :
        /\ Idle
        /\ call' = [op |-> "_load_dictionaries", files |-> files]
        /\ terms_dict' = _load_dictionaries(files)
        /\ ret' = [loaded |-> terms_dict']
        /\ UNCHANGED <<session_min_score, min_score, matcher_min_score, session_messages>>

NextLoad == LoadDictionaries

\* the loading of the dictionary files
SpecLoad == Init /\ [][NextLoad]_vars

\* the weights that are tried
Weights == 0..MaxWeight

\* AdvancedFuzzyMatcher(token_set_weight=..., ..., ratio_weight=...)
ConstructMatcher ==
    \E token_set_weight \in Weights, token_sort_weight \in Weights,
       partial_weight \in Weights, ratio_weight \in Weights :
        /\ Idle
        /\ call' = [op |-> "AdvancedFuzzyMatcher",
                    token_set_weight |-> token_set_weight,
                    token_sort_weight |-> token_sort_weight,
                    partial_weight |-> partial_weight, ratio_weight |-> ratio_weight]
        /\ ret' = AdvancedFuzzyMatcher(MATCHER_MIN_SCORE, token_set_weight,
                                       token_sort_weight, partial_weight, ratio_weight)
        /\ UNCHANGED <<terms_dict, session_min_score, min_score, matcher_min_score,
                     session_messages>>

NextWeights == ConstructMatcher

\* the construction of the Similarity Engine
SpecWeights == Init /\ [][NextWeights]_vars

\* the state after construction with dictionary files present (lines 16-33)
InitLoaded ==
    /\ terms_dict \in Dictionaries
    /\ session_min_score \in SessionMinScores
    /\ min_score = CurrentMinScore(session_min_score, DefaultMinScore)
    /\ matcher_min_score = min_score
    /\ session_messages = << >>
    /\ call = [op |-> "init"]
    /\ ret = [nothing |-> TRUE]

\* one call of orthodox_dict.find_matching_terms(text)
Match(text) ==
    /\ call' = [op |-> "find_matching_terms", text |-> text]
    /\ min_score' = CurrentMinScore(session_min_score, min_score)
    /\ matcher_min_score' = CurrentMinScore(session_min_score, matcher_min_score)
    /\ ret' = [matches |-> find_matching_terms(terms_dict, text, min_score')]
    /\ UNCHANGED <<terms_dict, session_min_score, session_messages>>

FindMatchingTerms == \E text \in Texts : Idle /\ Match(text)

NextMatch == FindMatchingTerms

\* the Terminology Matcher on its own
SpecMatch == InitLoaded /\ [][NextMatch]_vars

\* thresholds the host application writes to the session while it runs
WrittenMinScores == {70, 90}

\* texts of one sentence
OneSentenceTexts == { p \o "." : p \in Phrases }

\* the host sets st.session_state.orthodox_min_score, the key lines 28 and 101 read
WriteMinScore ==
    \E value \in WrittenMinScores :
        /\ session_min_score' = Some(value)
        /\ call' = [op |-> "write_min_score", value |-> value]
        /\ ret' = [nothing |-> TRUE]
        /\ UNCHANGED <<terms_dict, min_score, matcher_min_score, session_messages>>

\* a call of find_matching_terms at any time, the first or a later one
FindMatchingTermsAgain == \E text \in OneSentenceTexts : Match(text)

NextThreshold == WriteMinScore \/ FindMatchingTermsAgain

\* threshold writes and match calls in any order, one at a time
SpecThreshold == InitLoaded /\ [][NextThreshold]_vars

\* what the user types in the chat input
Prompts == { "Hello", "translate the Holy Spirit", "Please translate", "annotate" }

\* st.session_state.api_key
ApiKeys == { "", "sk-or-v1-key" }

\* the model identifier sent with the request
MODEL_ID == "qwen/qwen3-8b:free"

\* answers of the model service
ModelAnswers ==
    { [transport |-> t, status |-> 0, body |-> "invalid", content |-> ""] :
        t \in {"timeout", "connection"} }
    \cup { [transport |-> "ok", status |-> 500, body |-> "invalid", content |-> ""] }
    \cup { [transport |-> "ok", status |-> HTTP_OK, body |-> b, content |-> ""] :
             b \in {"invalid", "no_choices", "empty_choices", "no_message", "null_content",
                    "content"} }
    \cup { [transport |-> "ok", status |-> HTTP_OK, body |-> "content", content |-> "Sheng Shen"] }

\* the script run of a turn is inside requests.post (lines 200-206)
Waiting == call.op = "basic_chat_waiting"

\* basic_chat from the typed prompt to the request (lines 713-735, 180-206): the
\* user message is stored, the processed messages are built and posted
BasicChatSubmit ==
    \E prompt \in Prompts, orthodox_enabled \in BOOLEAN, api_key \in ApiKeys :
        /\ ~Waiting
        /\ api_key # ""                                  \* line 700
        /\ Len(session_messages) < 2 * MaxTurns
        /\ session_messages'
              = Append(session_messages, [role |-> "user", content |-> prompt])  \* line 715
        /\ call' = [op |-> "basic_chat_waiting", prompt |-> prompt,
                    orthodox_enabled |-> orthodox_enabled, api_key |-> api_key,
                    stored |-> session_messages]
        /\ LET Processed(processed) ==
                   ret' = [processed_messages |-> processed.processed_messages,
                           command_type |-> processed.command_type]
           IN  Processed(app_process_user_message(prompt, session_messages, orthodox_enabled))
        /\ UNCHANGED <<terms_dict, session_min_score, min_score, matcher_min_score>>

\* the request ends and the turn completes (lines 208-240, 737-745)
BasicChatAnswer ==
    \E answer \in ModelAnswers :
        /\ Waiting
        /\ call' = [op |-> "basic_chat", prompt |-> call.prompt,
                    orthodox_enabled |-> call.orthodox_enabled, answer |-> answer,
                    stored |-> call.stored]
        /\ LET Answered(response) ==
                   /\ session_messages' = AnsweredOrPopped(session_messages, response)
                   /\ ret' = [processed_messages |-> ret.processed_messages,
                              command_type |-> ret.command_type,
                              response |-> response]
           IN  Answered(call_openrouter_api(ret.processed_messages, MODEL_ID, call.api_key,
                                            answer))
        /\ UNCHANGED <<terms_dict, session_min_score, min_score, matcher_min_score>>

\* The user touches a widget while the request is outstanding: Streamlit stops
\* the script run at its next st.* call (the st.error of lines 214-240 or 741,
\* the end of st.spinner), before line 738 or 743 is reached, and the stored
\* list keeps the user message of line 715.
BasicChatStopped ==
    /\ Waiting
    /\ call' = [op |-> "basic_chat_stopped", prompt |-> call.prompt, stored |-> call.stored]
    /\ ret' = [nothing |-> TRUE]
    /\ UNCHANGED <<terms_dict, session_min_score, min_score, matcher_min_score,
                   session_messages>>

\* the Clear Chat button (app.py:530-531, settings.py:213-214), handled by a
\* script run of its own
ClearChat ==
    /\ ~Waiting
    /\ session_messages # << >>
    /\ session_messages' = << >>
    /\ call' = [op |-> "clear_chat"]
    /\ ret' = [nothing |-> TRUE]
    /\ UNCHANGED <<terms_dict, session_min_score, min_score, matcher_min_score>>

NextChat == BasicChatSubmit \/ BasicChatAnswer \/ BasicChatStopped \/ ClearChat

\* The import of utils.py.  Lines 8 and 18 call OrthodoxDictionary with the
\* keywords dict_path and min_score; __init__ (orthodox_dictionary.py:16) takes
\* dict_dir and min_score, so the call raises TypeError, no orthodox_dict is
\* bound and the module is not imported.
import_utils ==
    IF {"dict_path", "min_score"} \subseteq {"dict_dir", "min_score"}
    THEN Some("orthodox_dict")
    ELSE Raise("TypeError")

\* The state utils.py is written to be in once imported, with orthodox_dict
\* built by a constructor that accepts its call (the sources hold none, see
\* import_utils): orthodox_dict holds no entry or all of them, and the
\* threshold is the session's or 65.
InitApp ==
    /\ terms_dict \in { << >>, EntryList }
    /\ session_min_score \in { None, Some(90) }
    /\ min_score = CurrentMinScore(session_min_score, DefaultMinScore)
    /\ matcher_min_score = min_score
    /\ session_messages = << >>
    /\ call = [op |-> "init"]
    /\ ret = [nothing |-> TRUE]

ProcessUserMessage ==
    \E user_message \in UserMessages, messages \in Histories, orthodox_enabled \in BOOLEAN,
       responses \in AnswerPlans \cup { << >> }, fault \in Faults :
        /\ Idle
        /\ Len(responses) = 2 * Count(user_message, "(")   \* an answer for every POST
        /\ fault # None => /\ command_type_of(user_message, orthodox_enabled) = "add_footnotes"
                            /\ extract_command_and_text(user_message, "add footnotes")[2] # ""
        /\ call' = [op |-> "process_user_message", user_message |-> user_message,
                    messages |-> messages, orthodox_enabled |-> orthodox_enabled,
                    responses |-> responses, fault |-> fault]
        /\ IF calls_find_matching_terms(user_message, orthodox_enabled)
           THEN /\ min_score' = CurrentMinScore(session_min_score, min_score)
                /\ matcher_min_score' = CurrentMinScore(session_min_score, matcher_min_score)
           ELSE UNCHANGED <<min_score, matcher_min_score>>
        /\ ret' = process_user_message(user_message, messages, orthodox_enabled,
                                       terms_dict, min_score', responses, fault)
        /\ UNCHANGED <<terms_dict, session_min_score, session_messages>>

NextMsg == ProcessUserMessage

\* the Command Processor: calls of process_user_message in the state InitApp
SpecMsg == InitApp /\ [][NextMsg]_vars

\* the basic chat: turns, each in two steps around the request, and Clear Chat
SpecChat == Init /\ [][NextChat]_vars

NextFootnotes == ExtractBibleReferences \/ ProcessFootnotes

\* the Footnote Processor on its own
SpecFootnotes == Init /\ [][NextFootnotes]_vars

NextResolver == ParseCitation \/ ParseOther \/ FetchBibleText

\* the Scripture Reference Resolver on its own
SpecResolver == Init /\ [][NextResolver]_vars

-----------------------------------------------------------------------------
(* The citation form <book-words> <chapter>:<verse>[-<verse2>], stated as a *)
(* grammar over the whole string, whitespace between the parts allowed.     *)

AllIn(s, cls) == \A i \in 1..Len(s) : Char(s, i) \in cls

IsNumber(s) == Len(s) > 0 /\ AllIn(s, DigitCh)

IsBookWords(s) == Len(s) > 0 /\ AllIn(s, WordCh \cup SpaceCh)

\* <verse> or <verse> - <verse2>
IsVerses(s) ==
    \/ IsNumber(s)
    \/ \E d \in 1..Len(s) :
          /\ Char(s, d) = "-"
          /\ d > 1 /\ Char(s, 1) \notin SpaceCh /\ IsNumber(Strip(SubSeq(s, 1, d - 1)))
          /\ d < Len(s) /\ Char(s, Len(s)) \notin SpaceCh
          /\ IsNumber(Strip(SubSeq(s, d + 1, Len(s))))

IsCitationForm(s) ==
    \E colon \in 1..Len(s), k \in 1..Len(s) :
        /\ Char(s, colon) = ":"
        /\ k < colon - 1
        /\ IsBookWords(SubSeq(s, 1, k))
        /\ Char(s, k + 1) \in SpaceCh
        /\ IsNumber(Strip(SubSeq(s, k + 1, colon - 1)))
        /\ colon < Len(s) /\ Char(s, Len(s)) \notin SpaceCh
        /\ IsVerses(Strip(SubSeq(s, colon + 1, Len(s))))

\* the citation with surrounding whitespace and one optional pair of parentheses removed
Unwrapped(s) ==
    LET t == Strip(s)
    IN  IF StartsWith(t, "(") /\ EndsWith(t, ")") THEN Strip(Slice(t, 1, Len(t) - 1)) ELSE t

-----------------------------------------------------------------------------
(* Claims about the Scripture Reference Resolver. *)

\* the where-expression chapter=C AND verse>=S AND verse<=E
WhereExpr(c, s, e) ==
    "chapter=" \o Dec(c) \o " AND verse>=" \o Dec(s) \o " AND verse<=" \o Dec(e)

\* C7: a citation <book> <chapter>:<start>[-<end>], optionally in one pair of
\* parentheses, parses to the book's canonical key and to the expression
\* chapter=C AND verse>=S AND verse<=E, with E = S when no range is given.
C7_ParseCitation ==
    (call.op = "parse_bible_reference" /\ call.cite # None) =>
        LET c == call.cite[1]
        IN  ret.parsed = <<c.key, WhereExpr(c.chapter, c.start,
                                            IF c.end = None THEN c.start ELSE c.end[1])>>

C7_Witness ==
    /\ call.op = "parse_bible_reference"
    /\ call.reference = "(1 Corinthians 13:4)"
    /\ ret.parsed = <<"1cor", "chapter=13 AND verse>=4 AND verse<=4">>

\* C8: parse_bible_reference returns None for every string that, without its
\* optional pair of parentheses, is not of the form
\* <book-words> <chapter>:<verse>[-<verse2>].
C8_NoneUnlessCitationForm ==
    (call.op = "parse_bible_reference" /\ ~IsCitationForm(Unwrapped(call.reference))) =>
        ret.parsed = None

\* C10: fetch_bible_text never raises, and returns None for a transport
\* failure, a non-200 status, an empty array and a malformed body: a string
\* is returned only for a 200 response with a non-empty array of verses.
C10_FetchNoneOnFailure ==
    call.op = "fetch_bible_text" =>
        LET r == call.response
            verses == /\ r.transport
                      /\ r.status = HTTP_OK
                      /\ r.body.json = "array"
                      /\ r.body.items # << >>
                      /\ \A i \in 1..Len(r.body.items) : r.body.items[i].kind = "verse"
        IN  /\ ~IsRaise(ret.bible_text)
            /\ ~verses => ret.bible_text = None
            /\ ret.bible_text # None => verses /\ Len(ret.bible_text) = 1

C10_Witness ==
    /\ call.op = "fetch_bible_text"
    /\ call.response.transport
    /\ call.response.status = HTTP_OK
    /\ call.response.body.json = "array"
    /\ Len(call.response.body.items) = 2
    /\ call.response.body.items[1].kind = "verse"
    /\ call.response.body.items[2].kind = "no_text"
    /\ ret.bible_text = None

-----------------------------------------------------------------------------
(* Claims about the Footnote Processor. *)

\* the extracted references that are the given citation
Occurrences(references, reference) ==
    { i \in 1..Len(references) : references[i][1] = reference }

\* C4: the marker of a resolved reference is [n] with n its 1-based position
\* in the returned footnote list; a reference that fails gets no marker and
\* no entry, and consumes no index.
C4_MarkerIsFootnoteIndex ==
    call.op = "process_footnotes" =>
        LET processed_text == ret.processed_text
            footnotes == ret.footnotes
            references == extract_bible_references(call.text)
        IN  /\ Count(processed_text, "[") = Len(footnotes)
            /\ \A n \in 1..Len(footnotes) :
                  /\ Count(processed_text, "[" \o Dec(n) \o "]") = 1
                  /\ Cardinality(Occurrences(references, footnotes[n].reference)) = 1
                        => Contains(processed_text,
                                    "(" \o footnotes[n].reference \o ")[" \o Dec(n) \o "]")

-----------------------------------------------------------------------------
(* Claims about the Terminology Matcher. *)

NoDuplicateTerms(matches) ==
    \A i, j \in 1..Len(matches) : matches[i].term = matches[j].term => i = j

\* the scores a term has under each strategy taken by itself, over the sentences
StrategyScores(term, text) ==
    LET sentences == Range(Sentences(text))
    IN  { Whole(DIRECT_SCORE) : s \in { x \in sentences : DirectMatch(term, x) } }
        \cup { Whole(WORD_SET_SCORE) : s \in { x \in sentences : WordSetMatch(term, x) } }
        \cup { token_set_ratio(Lower(term), Lower(s)) : s \in sentences }

\* the scores a term is given when the strategies are applied in order of
\* precedence to each sentence: direct, else word-set, else fuzzy at or above
\* the threshold
AppliedScores(term, text, threshold) ==
    LET sentences == Range(Sentences(text))
        directly == { x \in sentences : DirectMatch(term, x) }
        by_words == { x \in sentences \ directly : WordSetMatch(term, x) }
        fuzzily == { token_set_ratio(Lower(term), Lower(x)) :
                       x \in sentences \ (directly \cup by_words) }
    IN  { Whole(DIRECT_SCORE) : s \in directly }
        \cup { Whole(WORD_SET_SCORE) : s \in by_words }
        \cup { score \in fuzzily : ScoreGeq(score, Whole(threshold)) }

\* C5 as stated: the result has at most one entry per term, and the score of
\* each entry is the maximum, over all sentences, of the scores the term has
\* under any single one of the three strategies (direct 100, word-set 90,
\* fuzzy token-set score).
C5_MaxOverStrategies ==
    call.op = "find_matching_terms" =>
        /\ NoDuplicateTerms(ret.matches)
        /\ \A i \in 1..Len(ret.matches) :
              ret.matches[i].score = ScoreMax(StrategyScores(ret.matches[i].term, call.text))

\* C5 amended: the result has at most one entry per term, and the score of
\* each entry is the maximum, over all sentences, of the score the term is
\* given in a sentence by the first strategy that matches it there (direct
\* 100, else word-set 90, else the fuzzy score when at or above the threshold).
C5_MaxOverAppliedStrategies ==
    call.op = "find_matching_terms" =>
        /\ NoDuplicateTerms(ret.matches)
        /\ \A i \in 1..Len(ret.matches) :
              LET seen == AppliedScores(ret.matches[i].term, call.text, min_score)
              IN  seen # {} /\ ret.matches[i].score = ScoreMax(seen)
        /\ \A k \in 1..Len(terms_dict) :
              AppliedScores(terms_dict[k].term, call.text, min_score) # {}
                  => \E i \in 1..Len(ret.matches) : ret.matches[i].term = terms_dict[k].term

\* a term matched at 90 in the first sentence and at 100 in the second
C5_Witness ==
    /\ call.op = "find_matching_terms"
    /\ call.text = "spirit most holy. the Holy Spirit descends."
    /\ Len(ret.matches) = 1
    /\ ret.matches[1].term = "Holy Spirit"
    /\ ret.matches[1].score = Whole(DIRECT_SCORE)

\* C6: every term of the dictionary that occurs verbatim, case-insensitively,
\* as a substring of the input text is returned with score 100, terms that
\* contain ".", "!" or "?" included.
C6_VerbatimTermScores100 ==
    call.op = "find_matching_terms" =>
        \A k \in 1..Len(terms_dict) :
            Contains(Lower(call.text), Lower(terms_dict[k].term)) =>
                \E i \in 1..Len(ret.matches) :
                    /\ ret.matches[i].term = terms_dict[k].term
                    /\ ret.matches[i].score = Whole(DIRECT_SCORE)

-----------------------------------------------------------------------------
(* Claims about the Command Processor. *)

\* the message with its surrounding whitespace removed, lower-cased
Trimmed(user_message) == Lower(Strip(user_message))

\* the turn process_user_message is to append
UserTurn(content) == [role |-> "user", content |-> content]

\* C1: a message whose trimmed, lower-cased form starts with "translate" is
\* classified "translate_standard" when Orthodox mode is disabled.
C1_TranslateStandard ==
    (/\ call.op = "process_user_message"
     /\ StartsWith(Trimmed(call.user_message), "translate")
     /\ ~call.orthodox_enabled)
        => ret.command_type = "translate_standard"

\* C2 as stated: a message that does not start, case-insensitively, with
\* "add footnotes", "annotate" or "translate" is classified "normal", its
\* processed query is the message itself, and the message itself is the one
\* turn appended.
C2_NormalUnlessStartsWithCommand ==
    (/\ call.op = "process_user_message"
     /\ ~StartsWith(Lower(call.user_message), "add footnotes")
     /\ ~StartsWith(Lower(call.user_message), "annotate")
     /\ ~StartsWith(Lower(call.user_message), "translate"))
        => /\ ret.command_type = "normal"
           /\ ret.processed_query = call.user_message
           /\ ret.processed_messages = Append(call.messages, UserTurn(call.user_message))

\* C2 amended: a message whose trimmed, lower-cased form does not start with
\* "add footnotes", "annotate" or "translate" is classified "normal", its
\* processed query is the message itself, untrimmed, and the message itself
\* is the one turn appended.
C2_NormalUnlessTrimmedStartsWithCommand ==
    (/\ call.op = "process_user_message"
     /\ ~StartsWith(Trimmed(call.user_message), "add footnotes")
     /\ ~StartsWith(Trimmed(call.user_message), "annotate")
     /\ ~StartsWith(Trimmed(call.user_message), "translate"))
        => /\ ret.raised = None
           /\ ret.command_type = "normal"
           /\ ret.processed_query = call.user_message
           /\ ret.processed_messages = Append(call.messages, UserTurn(call.user_message))

\* a message that names a command, but not at its beginning, passed through
C2_Witness ==
    /\ call.op = "process_user_message"
    /\ call.user_message = "\nplease annotate divine liturgies"
    /\ Len(call.messages) = 2
    /\ ret.command_type = "normal"
    /\ ret.processed_query = "\nplease annotate divine liturgies"
    /\ Len(ret.processed_messages) = 3
    /\ ret.processed_messages[3] = UserTurn("\nplease annotate divine liturgies")

\* the command a message names at its beginning, None when it names none
NamedCommand(user_message, orthodox_enabled) ==
    IF StartsWith(Trimmed(user_message), "add footnotes")
    THEN Some([prefix |-> "add footnotes", command_type |-> "add_footnotes"])
    ELSE IF StartsWith(Trimmed(user_message), "annotate")
    THEN Some([prefix |-> "annotate", command_type |-> "annotate"])
    ELSE IF StartsWith(Trimmed(user_message), "translate") /\ orthodox_enabled
    THEN Some([prefix |-> "translate", command_type |-> "translate_orthodox"])
    ELSE None

\* nothing but whitespace and separator characters follows the command
NoPayload(user_message, prefix) ==
    AllIn(SliceFrom(Strip(user_message), Len(prefix)), SpaceCh \cup Range(separators))

\* the prompt that asks for the missing text of a command
ClarificationRequest(command_type) ==
    IF command_type = "add_footnotes"
    THEN "Please provide the annotated text you would like to add Bible footnotes to. "
         \o "The text should already contain Bible references in parentheses, such as "
         \o "(John 3:16) or (Romans 8:28-30)."
    ELSE IF command_type = "annotate"
    THEN BIBLE_ANNOTATION_PROMPT
         \o "\n\n(Please provide the text you would like me to analyze for Bible quotes.)"
    ELSE ORTHODOX_TRANSLATION_PROMPT
         \o "\n\n(Please provide the English text you would like me to translate to "
         \o "traditional Chinese.)"

\* C3: a recognized command (add footnotes, annotate, translate with Orthodox
\* mode on) that carries no payload text is given its classification and the
\* clarification request as prompt, and the prompt of a recognized command
\* is never empty.
C3_ClarificationWhenNoPayload ==
    (call.op = "process_user_message"
     /\ NamedCommand(call.user_message, call.orthodox_enabled) # None)
        => LET named == NamedCommand(call.user_message, call.orthodox_enabled)[1]
           IN  /\ ret.processed_query # ""
               /\ NoPayload(call.user_message, named.prefix)
                     => /\ ret.command_type = named.command_type
                        /\ ret.processed_query = ClarificationRequest(named.command_type)

\* the instruction given in place of the prompt when the references fail
ErrorInstruction(what) ==
    "I encountered an error processing the Bible references: " \o what
    \o ". Please make sure the text contains valid Bible references in parentheses, "
    \o "such as (John 3:16) or (Romans 8:28-30)."

\* C9: an exception raised while the references of an "add footnotes"
\* message with a payload are extracted or resolved does not leave
\* process_user_message: the classification is "add_footnotes" and the error
\* instruction is the prompt and the one turn appended.
C9_FootnoteErrorsBecomeInstruction ==
    (call.op = "process_user_message" /\ call.fault # None)
        => /\ ret.raised = None
           /\ ret.command_type = "add_footnotes"
           /\ ret.processed_query = ErrorInstruction(call.fault[1])
           /\ ret.processed_messages
                 = Append(call.messages, UserTurn(ErrorInstruction(call.fault[1])))

\* an "add footnotes" message with a citation, and a fault while it is resolved
C9_Witness ==
    /\ call.op = "process_user_message"
    /\ call.user_message = "Add Footnotes: Love is patient (1 Cor 13:4), spirit most holy"
    /\ call.fault = Some("out of memory")
    /\ ret.raised = None
    /\ ret.command_type = "add_footnotes"
    /\ ret.processed_query = ErrorInstruction("out of memory")

-----------------------------------------------------------------------------
(* More claims about the Footnote Processor. *)

\* whether the reference is parsed and the passage service's answer gives text
Resolves(reference, response) ==
    LET Fetched(parsed) ==
            parsed # None /\ Truthy(fetch_bible_text(parsed[1], parsed[2], "en", response))
    IN  Fetched(parse_bible_reference(reference))

\* the text has exactly two citations, they differ and both resolve
TwoCitationsResolve ==
    /\ call.op = "process_footnotes"
    /\ LET Two(references) ==
               /\ Len(references) = 2
               /\ references[1][1] # references[2][1]
               /\ Resolves(references[1][1], call.responses[1])
               /\ Resolves(references[2][1], call.responses[2])
       IN  Two(extract_bible_references(call.text))

\* C11: for a text with two distinct citations that both resolve, the
\* returned text has exactly two markers, [1] right after the first citation
\* and [2] right after the second, and is the input but for the markers; the
\* footnotes are two entries whose references are the citations in order.
C11_TwoCitationsTwoMarkers ==
    TwoCitationsResolve =>
        LET Marked(references, at1, at2) ==
                /\ Count(ret.processed_text, "[") = 2
                /\ Count(ret.processed_text, "]") = 2
                /\ at1 >= 0 /\ at2 > at1
                /\ ret.processed_text
                      = Slice(call.text, 0, at1) \o references[1][2] \o "[1]"
                        \o Slice(call.text, at1 + Len(references[1][2]), at2)
                        \o references[2][2] \o "[2]"
                        \o SliceFrom(call.text, at2 + Len(references[2][2]))
                /\ Len(ret.footnotes) = 2
                /\ ret.footnotes[1].reference = references[1][1]
                /\ ret.footnotes[2].reference = references[2][1]
            Placed(references) ==
                Marked(references, Find(call.text, references[1][2], 0),
                       Find(call.text, references[2][2], 0))
        IN  Placed(extract_bible_references(call.text))

\* two different citations, both answered with a passage
C11_Witness ==
    /\ TwoCitationsResolve
    /\ call.text = "Love is patient (John 3:16), so it is written (Romans 8:28-30)."
    /\ ret.processed_text
          = "Love is patient (John 3:16)[1], so it is written (Romans 8:28-30)[2]."
    /\ Len(ret.footnotes) = 2

\* the positions of the "(" that open a parenthesized citation of the text
CitationOpens(text) ==
    { i \in 1..Len(text) :
        /\ Char(text, i) = "("
        /\ \E j \in (i + 1)..Len(text) :
              /\ Char(text, j) = ")"
              /\ IsCitationForm(SubSeq(text, i + 1, j - 1)) }

\* the citation opened at position i, without its parentheses
CitationAt(text, i) == SubSeq(text, i + 1, Find(text, ")", i) )

\* C12: extract_bible_references returns one entry (citation, citation in its
\* parentheses) for every occurrence of a parenthesized citation in the text,
\* in the order of the text, an occurrence that repeats an earlier citation
\* included; "Love is patient (1 Cor 13:4)." gives the one entry "1 Cor 13:4".
C12_OneEntryPerOccurrence ==
    call.op = "extract_bible_references" =>
        LET Listed(opens) ==
                /\ Len(ret.references) = Len(opens)
                /\ \A n \in 1..Len(opens) :
                      ret.references[n]
                          = << CitationAt(call.text, opens[n]),
                               "(" \o CitationAt(call.text, opens[n]) \o ")" >>
        IN  /\ Listed(Ascending(CitationOpens(call.text)))
            /\ call.text = "Love is patient (1 Cor 13:4)."
                  => ret.references = << <<"1 Cor 13:4", "(1 Cor 13:4)">> >>

\* a text where the same citation occurs twice, and both occurrences are listed
C12_Witness ==
    /\ call.op = "extract_bible_references"
    /\ call.text = "Love is patient (John 3:16), so it is written (John 3:16)."
    /\ ret.references = << <<"John 3:16", "(John 3:16)">>, <<"John 3:16", "(John 3:16)">> >>

-----------------------------------------------------------------------------
(* More claims about the Command Processor. *)

\* 0-based positions, from that of the keyword's end on, of the separators of the message
SeparatorsAfter(user_message, keyword) ==
    { j \in Len(keyword)..(Len(user_message) - 1) :
        Char(user_message, j + 1) \in Range(separators) }

\* what follows the first separator after the keyword, trimmed
PayloadAfterSeparator(user_message, keyword) ==
    Strip(SliceFrom(user_message, Min(SeparatorsAfter(user_message, keyword)) + 1))

\* a message that starts with "translate" in any letter case, then has a
\* separator and a payload after it, sent with Orthodox mode on
TranslateWithPayload ==
    /\ call.op = "process_user_message"
    /\ call.orthodox_enabled
    /\ StartsWith(Lower(call.user_message), "translate")
    /\ SeparatorsAfter(call.user_message, "translate") # {}
    /\ PayloadAfterSeparator(call.user_message, "translate") # ""

\* the line of the dictionary block for a matched term
TermLine(m) ==
    IF Len(m.translations) = 1
    THEN "- \"" \o m.term \o "\": \"" \o m.translations[1] \o "\"\n"
    ELSE "- \"" \o m.term \o "\": [\"" \o Join(m.translations, "\", \"") \o "\"]"

\* the sentence that opens the dictionary block
BlockOpening ==
    "\nWhen translating the text, you MUST use the following dictionary of special "
    \o "Orthodox Christian terms:\n\n"

\* C13: with Orthodox mode on, a message that starts with "translate" in any
\* letter case, followed by a separator and a payload, is classified
\* "translate_orthodox"; when the payload matches dictionary terms, the prompt
\* holds the dictionary block with the line of every matched term and its
\* translations, and after the block the payload, with which it ends.
C13_TranslateOrthodoxListsTerms ==
    TranslateWithPayload =>
        LET Listed(payload, matches) ==
                /\ ret.raised = None
                /\ ret.command_type = "translate_orthodox"
                /\ EndsWith(ret.processed_query, payload)
                /\ matches # << >> =>
                      /\ Contains(ret.processed_query, BlockOpening)
                      /\ \A n \in 1..Len(matches) :
                            /\ Find(ret.processed_query, TermLine(matches[n]), 0)
                                  > Find(ret.processed_query, BlockOpening, 0)
                            /\ Find(ret.processed_query, TermLine(matches[n]), 0)
                                  < Len(ret.processed_query) - Len(payload)
            Matched(payload) ==
                Listed(payload, find_matching_terms(terms_dict, payload, min_score))
        IN  Matched(PayloadAfterSeparator(call.user_message, "translate"))

\* "Translate", a separator and a payload in which two terms are matched, one
\* of them with two translations
C13_Witness ==
    /\ TranslateWithPayload
    /\ call.user_message = "Translate. the Divine Liturgy; Holy Spirit"
    /\ terms_dict # << >>
    /\ ret.command_type = "translate_orthodox"
    /\ Contains(ret.processed_query, "- \"Holy Spirit\": \"sheng shen\"\n")
    /\ Contains(ret.processed_query, "- \"Divine Liturgy\": [\"shi li\", \"sheng li yi\"]")
    /\ EndsWith(ret.processed_query, "the Divine Liturgy; Holy Spirit")

\* C14: with Orthodox mode off, a "translate" message is matched against the
\* dictionary: when terms match its payload, the prompt is an instruction
\* with the line of every matched term, followed by the payload; when none
\* matches, the prompt is the message, unmodified.
C14_StandardTranslateUsesDictionary ==
    (/\ call.op = "process_user_message"
     /\ ~call.orthodox_enabled
     /\ StartsWith(Lower(call.user_message), "translate")) =>
        LET Assembled(payload, matches) ==
                IF matches = << >>
                THEN ret.processed_query = call.user_message
                ELSE /\ ret.processed_query # call.user_message
                     /\ EndsWith(ret.processed_query, payload)
                     /\ \A n \in 1..Len(matches) :
                           Contains(ret.processed_query, TermLine(matches[n]))
            Matched(payload) ==
                Assembled(payload,
                          find_matching_terms(terms_dict, payload,
                                              CurrentMinScore(session_min_score, min_score)))
        IN  Matched(extract_command_and_text(call.user_message, "translate")[2])

-----------------------------------------------------------------------------
(* Claims about the loading of the dictionary. *)

\* a line that is neither blank nor an object of string values
Malformed(line) ==
    \/ line.kind \in {"invalid", "not_object"}
    \/ line.kind = "object" /\ \E n \in 1..Len(line.pairs) : ~line.pairs[n].is_string

\* a line that is an object of one key with a string value
SingleKeyRecord(line) ==
    line.kind = "object" /\ Len(line.pairs) = 1 /\ line.pairs[1].is_string

\* the table has the translation under the term
Loaded(dict, english_term, chinese_translation) ==
    \E i \in 1..Len(dict) :
        /\ dict[i].term = english_term
        /\ chinese_translation \in Range(dict[i].translations)

\* C15: a malformed line, be it invalid JSON or JSON that is no object of
\* string values, is skipped and the load goes on: every single-key record
\* after it in the same file, and every record of the later files, is in the
\* table.
C15_MalformedLineSkipped ==
    call.op = "_load_dictionaries" =>
        \A f \in 1..Len(call.files) : \A j \in 1..Len(call.files[f].lines) :
            LET line == call.files[f].lines[j]
                after_malformed ==
                    \/ \E k \in 1..(j - 1) : Malformed(call.files[f].lines[k])
                    \/ \E e \in 1..(f - 1) : \E k \in 1..Len(call.files[e].lines) :
                          Malformed(call.files[e].lines[k])
            IN  (call.files[f].readable /\ SingleKeyRecord(line) /\ after_malformed)
                    => Loaded(ret.loaded, Strip(line.pairs[1].key), Strip(line.pairs[1].value))

\* a line at which an exception other than JSONDecodeError is raised
Raises(line) ==
    \/ line.kind = "not_object"
    \/ line.kind = "object" /\ \E n \in 1..Len(line.pairs) : ~line.pairs[n].is_string

\* the places <<file, line, item>> of the items that the load reads and stores
ReadPlaces(files) ==
    LET ItemsOf(f, j) ==
            { <<f, j, n>> : n \in { m \in 1..Len(files[f].lines[j].pairs) :
                                      \A k \in 1..m : files[f].lines[j].pairs[k].is_string } }
        LinesOf(f) ==
            { j \in 1..Len(files[f].lines) :
                /\ files[f].lines[j].kind = "object"
                /\ \A k \in 1..(j - 1) : ~Raises(files[f].lines[k]) }
    IN  UNION { UNION { ItemsOf(f, j) : j \in LinesOf(f) } :
                f \in { e \in 1..Len(files) : files[e].readable } }

\* place p comes before place q in reading order
ReadBefore(p, q) ==
    \/ p[1] < q[1]
    \/ p[1] = q[1] /\ p[2] < q[2]
    \/ p[1] = q[1] /\ p[2] = q[2] /\ p[3] < q[3]

\* the places where the translation is read for the term
ReadsOf(files, english_term, chinese_translation) ==
    { p \in ReadPlaces(files) :
        /\ Strip(files[p[1]].lines[p[2]].pairs[p[3]].key) = english_term
        /\ Strip(files[p[1]].lines[p[2]].pairs[p[3]].value) = chinese_translation }

\* C16: after a load every term of the table is there once, with a list of
\* translations that is not empty and has no translation twice, each of them
\* read for the term, in the order in which they were first read.
C16_TranslationsDistinctInReadOrder ==
    call.op = "_load_dictionaries" =>
        /\ \A i, j \in 1..Len(ret.loaded) : ret.loaded[i].term = ret.loaded[j].term => i = j
        /\ \A i \in 1..Len(ret.loaded) :
              LET translations == ret.loaded[i].translations
                  Reads(n) == ReadsOf(call.files, ret.loaded[i].term, translations[n])
              IN  /\ translations # << >>
                  /\ \A a, b \in 1..Len(translations) :
                        translations[a] = translations[b] => a = b
                  /\ \A n \in 1..Len(translations) : Reads(n) # {}
                  /\ \A a, b \in 1..Len(translations) :
                        a < b => \E p \in Reads(a) : \A q \in Reads(b) : ReadBefore(p, q)

\* a term read three times with two different translations, the first of them twice
C16_Witness ==
    /\ call.op = "_load_dictionaries"
    /\ call.files = << [readable |-> TRUE,
                        lines |-> << Record("grace", "en chong"), Record(" grace ", "en dian "),
                                     Record("grace", "en chong") >>] >>
    /\ ret.loaded = << [term |-> "grace", translations |-> <<"en chong", "en dian">>] >>

-----------------------------------------------------------------------------
(* Claims about the translate prompt. *)

\* a translate_orthodox call with a payload: what the payload is
TranslatePayload == extract_command_and_text(call.user_message, "translate")[2]

\* C17: create_dictionary_prompt renders the empty match list as the empty
\* string: a translate_orthodox prompt for a payload that matches no term and
\* has no resolved Bible quote is the Orthodox instruction, the translate
\* request line and the payload, with no dictionary instruction in it.
C17_NoBlockWithoutMatches ==
    (/\ call.op = "process_user_message"
     /\ ret.command_type = "translate_orthodox"
     /\ TranslatePayload # ""
     /\ find_matching_terms(terms_dict, TranslatePayload, min_score) = << >>
     /\ get_bible_quote_translations(TranslatePayload, call.responses) = << >>)
        => /\ create_dictionary_prompt(<< >>) = ""
           /\ ret.processed_query
                 = ORTHODOX_TRANSLATION_PROMPT \o "\n\n"
                   \o "Please translate the following text:\n\n" \o TranslatePayload
           /\ ~Contains(ret.processed_query, "you MUST use the following dictionary")
           /\ ~Contains(ret.processed_query, "authoritative and must be used")

\* a payload with a citation whose passages are not fetched, and a dictionary with no entry
C17_Witness ==
    /\ call.op = "process_user_message"
    /\ call.user_message = "translate: Love is patient (1 Cor 13:4), spirit most holy"
    /\ terms_dict = << >>
    /\ ret.command_type = "translate_orthodox"
    /\ get_bible_quote_translations(TranslatePayload, call.responses) = << >>
    /\ ret.processed_query
          = ORTHODOX_TRANSLATION_PROMPT \o "\n\n" \o "Please translate the following text:\n\n"
            \o "Love is patient (1 Cor 13:4), spirit most holy"

\* a quote as the claim has it inserted: whole, or its first MAX_QUOTE characters and an ellipsis
Truncated(quote) ==
    IF Len(quote) > MAX_QUOTE THEN SubSeq(quote, 1, MAX_QUOTE) \o "..." ELSE quote

\* C18: every Bible quote in the dictionary block of a translate_orthodox
\* prompt, the English one and the one in the target language, is the fetched
\* passage when that has at most 150 characters, and otherwise its first 150
\* characters followed by an ellipsis.
C18_QuotesTruncated ==
    (call.op = "process_user_message" /\ ret.command_type = "translate_orthodox"
     /\ TranslatePayload # "") =>
        LET Inserted(quotes) ==
                \A n \in 1..Len(quotes) :
                    Contains(ret.processed_query,
                             "- \"" \o Truncated(quotes[n][1]) \o "\": \""
                             \o Truncated(quotes[n][2]) \o "\"\n")
        IN  Inserted(get_bible_quote_translations(TranslatePayload, call.responses))


\* C19: every call of process_user_message returns the supplied history
\* followed by exactly one new message, of role "user", whose content is the
\* returned processed query, and leaves the caller's history list as it was,
\* whichever branch is taken.
C19_HistoryPlusOneMessage ==
    call.op = "process_user_message" =>
        /\ ret.raised = None
        /\ ret.processed_messages
               = Append(call.messages, [role |-> "user", content |-> ret.processed_query])
        /\ ret.messages = call.messages

\* a command with a non-empty history: the processed query is not the message
\* typed, and the returned sequence is one longer than the history
C19_Witness ==
    /\ call.op = "process_user_message"
    /\ call.messages # << >>
    /\ ret.command_type = "translate_orthodox"
    /\ ret.processed_query # call.user_message
    /\ Len(ret.processed_messages) = Len(call.messages) + 1
    /\ ret.messages = call.messages


\* the matches of the call before the sort of line 167: one entry a term, in
\* the order the terms were first matched
UnsortedMatches ==
    RemoveDuplicates(AllMatches(terms_dict, Sentences(call.text), 1, min_score), 1, << >>)

\* C20: the sequence find_matching_terms returns is sorted by non-increasing
\* score: no entry has a higher score than an entry before it, whatever the
\* dictionary and the text.
C20_SortedByScoreDescending ==
    call.op = "find_matching_terms" =>
        \A i \in 1..Len(ret.matches), j \in 1..Len(ret.matches) :
            i < j => ScoreGeq(ret.matches[i].score, ret.matches[j].score)

\* a call whose matches were found in another order than by score: an entry is
\* followed, before the sort, by one of a higher score
C20_Witness ==
    /\ call.op = "find_matching_terms"
    /\ Len(ret.matches) >= 2
    /\ ScoreGt(ret.matches[1].score, ret.matches[Len(ret.matches)].score)
    /\ \E i \in 1..Len(UnsortedMatches) - 1 :
           ScoreGt(UnsortedMatches[i + 1].score, UnsortedMatches[i].score)
    /\ ret.matches # UnsortedMatches


\* a citation that the text holds more than once and that has a footnote
RepeatedResolved(references, footnotes) ==
    { references[i][2] : i \in { i \in 1..Len(references) :
        /\ \E j \in 1..Len(references) : j # i /\ references[j] = references[i]
        /\ \E n \in 1..Len(footnotes) : footnotes[n].reference = references[i][1] } }

\* C21: when the identical parenthesized citation occurs more than once in
\* the text and resolves, only its first occurrence in the returned text is
\* followed by a marker; its later occurrences are all still there and none
\* of them is followed by a marker.
C21_OnlyFirstOccurrenceMarked ==
    call.op = "process_footnotes" =>
        \A full_match \in RepeatedResolved(extract_bible_references(call.text), ret.footnotes) :
            LET first == Find(ret.processed_text, full_match, 0)
            IN  /\ first >= 0
                /\ Find(ret.processed_text, full_match \o "[", 0) = first
                /\ Find(ret.processed_text, full_match \o "[", first + 1) = -1
                /\ Count(ret.processed_text, full_match) = Count(call.text, full_match)

\* the same citation twice, both answered with a passage: the markers of both
\* follow the first occurrence and the second occurrence has none
C21_Witness ==
    /\ call.op = "process_footnotes"
    /\ call.text = "Love is patient (John 3:16), so it is written (John 3:16)."
    /\ Len(ret.footnotes) = 2
    /\ ret.processed_text
          = "Love is patient (John 3:16)[2][1], so it is written (John 3:16)."


\* the keyword process_user_message hands to extract_command_and_text in the
\* branch of each command (lines 108, 137, 153)
CommandPrefixOf(command_type) ==
    IF command_type = "add_footnotes" THEN "add footnotes"
    ELSE IF command_type = "annotate" THEN "annotate"
    ELSE "translate"

\* the payload the split at the leftmost separator after the prefix gives, or
\* the text after the prefix when there is no separator, trimmed
PayloadBySplit(user_message, command_prefix) ==
    IF SeparatorsAfter(user_message, command_prefix) = {}
    THEN Strip(SliceFrom(user_message, Len(command_prefix)))
    ELSE PayloadAfterSeparator(user_message, command_prefix)

\* C22: for a message that starts with the command prefix,
\* extract_command_and_text returns as payload the trimmed text after the
\* leftmost separator (: . , - ; or newline) found after the prefix, and the
\* trimmed text after the prefix when there is no separator.
C22_PayloadAfterFirstSeparator ==
    (/\ call.op = "process_user_message"
     /\ ret.command_type # "normal"
     /\ StartsWith(Lower(call.user_message), CommandPrefixOf(ret.command_type))) =>
        extract_command_and_text(call.user_message, CommandPrefixOf(ret.command_type))[2]
            = PayloadBySplit(call.user_message, CommandPrefixOf(ret.command_type))


\* the scores with which the term is reported for the sentence, in order
ReportedScores(matches, term) ==
    LET at == Ascending({ i \in 1..Len(matches) : matches[i].term = term })
    IN  [n \in 1..Len(at) |-> matches[at[n]].score]

\* the term is in the result with the score, or with a higher one
InResultAtLeast(term, score) ==
    \E i \in 1..Len(ret.matches) :
        ret.matches[i].term = term /\ ScoreGeq(ret.matches[i].score, score)

\* C23: a term matched in a sentence neither directly nor by word-set is
\* reported for that sentence exactly when its token-set similarity to the
\* sentence is at least the threshold in force, and then with that similarity
\* as score; a term matched there directly or by word-set is reported once
\* for the sentence and is not scored by the fuzzy strategy.  What is reported
\* for a sentence is in the result, unless a higher score of the term is.
C23_FuzzyAtOrAboveThreshold ==
    call.op = "find_matching_terms" =>
        \A sentence \in Range(Sentences(call.text)), k \in 1..Len(terms_dict) :
            LET term == terms_dict[k].term
                Reported(scores, fuzzy) ==
                    /\ IF DirectMatch(term, sentence) \/ WordSetMatch(term, sentence)
                       THEN Len(scores) = 1 /\ scores[1] \in { Whole(DIRECT_SCORE),
                                                               Whole(WORD_SET_SCORE) }
                       ELSE IF ScoreGeq(fuzzy, Whole(min_score))
                       THEN scores = <<fuzzy>>
                       ELSE scores = << >>
                    /\ \A n \in 1..Len(scores) : InResultAtLeast(term, scores[n])
            IN  Reported(ReportedScores(SentenceMatches(terms_dict, sentence, min_score), term),
                         token_set_ratio(Lower(term), Lower(sentence)))

\* a term that only the fuzzy strategy matches: "Divine Liturgy" in the one
\* sentence "divine liturgies", reported with its token-set similarity
C23_Witness ==
    /\ call.op = "find_matching_terms"
    /\ call.text = "divine liturgies."
    /\ Len(ret.matches) = 1
    /\ ret.matches[1].term = "Divine Liturgy"
    /\ ~DirectMatch("Divine Liturgy", "divine liturgies")
    /\ ~WordSetMatch("Divine Liturgy", "divine liturgies")
    /\ ret.matches[1].score = token_set_ratio("divine liturgy", "divine liturgies")
    /\ ScoreGeq(ret.matches[1].score, Whole(min_score))
    /\ ScoreGt(Whole(WORD_SET_SCORE), ret.matches[1].score)


\* the term has at least two words and every one of them is a word of the sentence
EveryWordAmong(term, sentence) ==
    /\ Len(Words(Lower(term))) >= 2
    /\ \A n \in 1..Len(Words(Lower(term))) :
          \E k \in 1..Len(Words(Lower(sentence))) :
              Words(Lower(sentence))[k] = Words(Lower(term))[n]

\* C24 as stated: a term that is not a direct substring of the sentence is
\* reported for it with score 90 exactly when it has at least two words and
\* every one of its words occurs among the sentence's words, in any order.
C24_Score90IffWordSet ==
    call.op = "find_matching_terms" =>
        \A sentence \in Range(Sentences(call.text)), k \in 1..Len(terms_dict) :
            LET Reported(term, scores) ==
                    ~DirectMatch(term, sentence) =>
                        ((\E n \in 1..Len(scores) : scores[n] = Whole(WORD_SET_SCORE))
                             <=> EveryWordAmong(term, sentence))
            IN  Reported(terms_dict[k].term,
                         ReportedScores(SentenceMatches(terms_dict, sentence, min_score),
                                        terms_dict[k].term))

\* C24 amended: a term that is not a direct substring of the sentence and has
\* at least two words, every one of them among the sentence's words in any
\* order, is reported for it once, with score 90 whatever its similarity to
\* the sentence; any other term that is not a direct substring, a single-word
\* term included, is reported for the sentence only by the fuzzy strategy:
\* with its token-set similarity, which may be 90, when that reaches the
\* threshold, and not at all otherwise.  A score reported for a sentence is
\* in the result unless a higher score of the term is.
C24_WordSetGives90 ==
    call.op = "find_matching_terms" =>
        \A sentence \in Range(Sentences(call.text)), k \in 1..Len(terms_dict) :
            LET Reported(term, scores, fuzzy) ==
                    ~DirectMatch(term, sentence) =>
                        /\ IF EveryWordAmong(term, sentence)
                           THEN scores = << Whole(WORD_SET_SCORE) >>
                           ELSE scores = IF ScoreGeq(fuzzy, Whole(min_score))
                                         THEN <<fuzzy>> ELSE << >>
                        /\ \A n \in 1..Len(scores) : InResultAtLeast(term, scores[n])
            IN  Reported(terms_dict[k].term,
                         ReportedScores(SentenceMatches(terms_dict, sentence, min_score),
                                        terms_dict[k].term),
                         token_set_ratio(Lower(terms_dict[k].term), Lower(sentence)))

\* the words of "Holy Spirit" in another order in one sentence: matched by
\* word-set and reported with 90, while the token-set similarity of the two is
\* 100; and the single word of "Amen!" among the words of the sentence "Amen",
\* which does not hold the term: not word-set matched, reported with its
\* similarity 800/9
C24_Witness ==
    /\ call.op = "find_matching_terms"
    /\ call.text = "spirit most holy. St. John came by grace! Amen."
    /\ Sentences(call.text) = << "spirit most holy", "St", "John came by grace", "Amen" >>
    /\ min_score = DefaultMinScore
    /\ ~DirectMatch("Holy Spirit", "spirit most holy")
    /\ EveryWordAmong("Holy Spirit", "spirit most holy")
    /\ token_set_ratio("holy spirit", "spirit most holy") = Whole(DIRECT_SCORE)
    /\ ~DirectMatch("Amen!", "Amen")
    /\ Words(Lower("Amen!")) = Words(Lower("Amen"))
    /\ ~EveryWordAmong("Amen!", "Amen")
    /\ ret.matches = << [term |-> "Holy Spirit", translations |-> <<"sheng shen">>,
                         score |-> Whole(WORD_SET_SCORE)],
                        [term |-> "Amen!", translations |-> <<"a men">>,
                         score |-> Score(800, 9)] >>


\* the threshold the session setting gives, the constructor's default without one
SessionThreshold == IF session_min_score # None THEN session_min_score[1] ELSE DefaultMinScore

\* C25: in any interleaving of threshold writes and find_matching_terms
\* calls, a write leaves the value written as the session setting, and each
\* call uses the session setting as it is when the call starts, that is the
\* value written last, or the constructor value 65 when there is no setting:
\* the result is the one for that threshold, and after the call the
\* dictionary's min_score and its fuzzy matcher's min_score both equal it.
C25_LastWrittenThresholdUsed ==
    [][ /\ call'.op = "write_min_score" => session_min_score' = Some(call'.value)
        /\ call'.op = "find_matching_terms" =>
              /\ session_min_score' = session_min_score
              /\ min_score' = SessionThreshold
              /\ matcher_min_score' = SessionThreshold
              /\ ret'.matches = find_matching_terms(terms_dict, call'.text, SessionThreshold)
      ]_vars

\* a call made after 70 was written: 70 is no threshold of construction, the
\* call has brought both min_score fields to it, and "Divine Liturgy" is
\* matched by its similarity to "divine liturgies", which lies above 70
C25_Witness ==
    /\ call.op = "find_matching_terms"
    /\ call.text = "divine liturgies."
    /\ session_min_score = Some(70)
    /\ min_score = 70
    /\ matcher_min_score = 70
    /\ Len(ret.matches) = 1
    /\ ret.matches[1].term = "Divine Liturgy"


\* the citations of the payload that parse, by their place among the
\* extracted citations
ParsingCitations(references) ==
    { i \in 1..Len(references) : parse_bible_reference(references[i][1]) # None }

\* what the passage service's answers make of the i-th citation: the n-th
\* citation that parses has the answers 2n-1, for "en", and 2n, for "hk"
Rendering(references, responses, i, lang) ==
    LET Asked(parsed, n) ==
            fetch_bible_text(parsed[1], parsed[2], lang,
                             responses[IF lang = "en" THEN 2 * n - 1 ELSE 2 * n])
    IN  Asked(parse_bible_reference(references[i][1]),
              Cardinality({ j \in ParsingCitations(references) : j <= i }))

\* the citations that contribute an entry: they parse and both fetches give text
Contributing(references, responses) ==
    { i \in ParsingCitations(references) :
        /\ Truthy(Rendering(references, responses, i, "en"))
        /\ Truthy(Rendering(references, responses, i, "hk")) }

\* the entry of the i-th citation as the dictionary block writes it
EntryLine(references, responses, i) ==
    "- \"" \o Truncated(Rendering(references, responses, i, "en")[1]) \o "\": \""
    \o Rendering(references, responses, i, "hk")[1] \o "\"\n"

\* the words that close the entries of the Bible quotes in the prompt
QuotesClosing == "\nThese translations for Bible quotes are authoritative"

\* C26: in translate_orthodox, the English and the target-language rendering
\* are fetched for each citation of the payload that parses, and a citation
\* contributes an entry to the dictionary block exactly when it parses and
\* both fetches give text: the block holds the entries of these citations, in
\* the order of the citations, and no other entry, so that a citation that
\* fails takes nothing from the entries of the others; when no citation
\* contributes there is no block of quotes.
C26_EntryPerResolvedCitation ==
    (call.op = "process_user_message" /\ ret.command_type = "translate_orthodox"
     /\ TranslatePayload # "") =>
        LET Entries(references, contributing) ==
                /\ get_bible_quote_translations(TranslatePayload, call.responses)
                      = [n \in 1..Len(contributing) |->
                            << Rendering(references, call.responses, contributing[n], "en")[1],
                               Rendering(references, call.responses, contributing[n], "hk")[1] >>]
                /\ IF contributing = << >>
                   THEN ~Contains(ret.processed_query, QuotesClosing)
                   ELSE Contains(ret.processed_query,
                            ":\n\n"
                            \o Join([n \in 1..Len(contributing) |->
                                       EntryLine(references, call.responses, contributing[n])],
                                    "")
                            \o QuotesClosing)
            Cited(references) ==
                Entries(references, Ascending(Contributing(references, call.responses)))
        IN  Cited(extract_bible_references(TranslatePayload))

\* two citations of which the first fails in one language: its entry is not
\* there and the entry of the second is
C26_Witness ==
    /\ call.op = "process_user_message"
    /\ ret.command_type = "translate_orthodox"
    /\ call.user_message
          = "translate: God is love (John 3:16), and love is patient (1 Cor 13:4)"
    /\ Truthy(Rendering(extract_bible_references(TranslatePayload), call.responses, 1, "en"))
    /\ ~Truthy(Rendering(extract_bible_references(TranslatePayload), call.responses, 1, "hk"))
    /\ Contributing(extract_bible_references(TranslatePayload), call.responses) = {2}
    /\ Contains(ret.processed_query,
                ":\n\n- \"Love is patient\": \"ai shi heng jiu ren nai\"\n" \o QuotesClosing)
    /\ ~Contains(ret.processed_query, "For God so loved the world")


\* the sum of two exact fractions
ScoreAdd(a, b) == Score(a.n * b.d + b.n * a.d, a.d * b.d)

\* the weights given to the constructor, by algorithm
GivenWeights ==
    [token_set |-> call.token_set_weight, token_sort |-> call.token_sort_weight,
     partial |-> call.partial_weight, ratio |-> call.ratio_weight]

\* C27: for every choice of four non-negative weights, some or all of them 0
\* included, the construction of AdvancedFuzzyMatcher succeeds without a
\* division fault, and the normalized weights are non-negative and sum to 1,
\* a weight of 0 staying 0.
C27_WeightsNormalized ==
    call.op = "AdvancedFuzzyMatcher" =>
        /\ ret.raised = None
        /\ \A alg \in DOMAIN GivenWeights :
              /\ ScoreGeq(ret.weights[1][alg], Whole(0))
              /\ GivenWeights[alg] = 0 => ret.weights[1][alg] = Whole(0)
        /\ ScoreAdd(ScoreAdd(ret.weights[1].token_set, ret.weights[1].token_sort),
                    ScoreAdd(ret.weights[1].partial, ret.weights[1].ratio)) = Whole(1)


\* the payload process_user_message extracts in the branch of the command
CommandPayload ==
    extract_command_and_text(call.user_message, CommandPrefixOf(ret.command_type))[2]

\* C28: for every message classified as a command, messages with whitespace
\* before the command word included, the test for the prefix that the payload
\* extraction makes on the message as typed agrees with the test the
\* classification made on the trimmed message, and the payload handed to the
\* dictionary, footnote or annotation step does not begin with the command
\* prefix.
C28_PrefixTestsAgree ==
    (call.op = "process_user_message" /\ ret.command_type # "normal") =>
        /\ StartsWith(Lower(call.user_message), CommandPrefixOf(ret.command_type))
        /\ ~StartsWith(Strip(Lower(CommandPayload)), CommandPrefixOf(ret.command_type))


\* the message is the command prefix followed by one separator character and,
\* at most, whitespace around it
OnlySeparatorFollows(user_message, command_prefix) ==
    LET Rest(rest) ==
            /\ \E j \in 1..Len(rest) : Char(rest, j) \in Range(separators)
            /\ Strip(rest) = "" \/ (Len(Strip(rest)) = 1 /\ Strip(rest) \in Range(separators))
    IN  /\ StartsWith(Lower(user_message), command_prefix)
        /\ Rest(SliceFrom(user_message, Len(command_prefix)))

\* C29: for a recognized command followed only by a separator character and
\* optional whitespace ("translate:", "annotate: "), extract_command_and_text
\* returns the empty payload and process_user_message produces the command's
\* clarification request; the separator is not taken for the text to process.
C29_SeparatorOnlyAsksClarification ==
    (/\ call.op = "process_user_message"
     /\ ret.command_type # "normal"
     /\ OnlySeparatorFollows(call.user_message, CommandPrefixOf(ret.command_type))) =>
        /\ CommandPayload = ""
        /\ ret.processed_query = ClarificationRequest(ret.command_type)


\* the model call of the turn fails: no answer of status 200 that carries a
\* first choice with a content
ModelCallFails(answer) ==
    \/ answer.transport # "ok"
    \/ answer.status # HTTP_OK
    \/ answer.body # "content"

\* the stored history is user and assistant messages in turn, ending with an
\* assistant message
UserAssistantPairs(stored) ==
    /\ Len(stored) % 2 = 0
    /\ \A n \in 1..Len(stored) :
          stored[n].role = IF n % 2 = 1 THEN "user" ELSE "assistant"

\* C30: in basic chat, after every completed turn and for any sequence of
\* turns, the stored history is a sequence of (user, assistant) pairs; a turn
\* that is answered adds the pair of the text as the user typed it, not the
\* processed query, and the answer; a turn whose model call fails removes
\* the user message it appended and leaves the history as it was before the
\* turn.
C30_HistoryIsPairsOfOriginalText ==
    call.op = "basic_chat" =>
        /\ UserAssistantPairs(session_messages)
        /\ ModelCallFails(call.answer) => session_messages = call.stored
        /\ session_messages # call.stored =>
              session_messages
                  = call.stored \o << [role |-> "user", content |-> call.prompt],
                                      [role |-> "assistant", content |-> ret.response[1]] >>

====
